---- MODULE Spec2Model ----
(***************************************************************************)
(* Jenkins-Sentinel: the AgentManager (src/app/services/agent_manager.py)  *)
(* as a state machine.  The asyncio tasks of the program (the supervisor   *)
(* monitor_builds, one monitor_job per job, the two hourly loops and the   *)
(* startup load) are interleaved at their real suspension points: the      *)
(* asyncio.sleep calls and the database query of load_patterns.  Every     *)
(* other await in the program awaits a coroutine that never yields, so one *)
(* loop iteration is one atomic action.                                    *)
(***************************************************************************)
EXTENDS Integers, Sequences, FiniteSets, TLC

(* ------------------------------------------------------------------ *)
(* Bounds of the model                                                  *)
(* ------------------------------------------------------------------ *)

\* highest build number the CI server hands out per job
MaxBuild == 2
\* monitor tasks the supervisor creates over a run
MaxTasks == 2
\* passes of the hourly pattern-refresh loop over a run
MaxRefresh == 1
\* the clock stops at this day
MaxClock == 30
\* observations of one failure pattern over a run
MaxObservations == 12
\* analyses of a job in the cache when the refresh pass runs
MaxBatch == 4

(* ------------------------------------------------------------------ *)
(* Program constants                                                    *)
(* ------------------------------------------------------------------ *)

SupervisorInterval == 60
SupervisorBackoff == 300
PatternTTLDays == 30
CacheTTLDays == 7
MaxContexts == 10
PromoteThreshold == 3
EnvironmentalThreshold == 3
FastDurationLimit == 300

(* ------------------------------------------------------------------ *)
(* Values                                                               *)
(* ------------------------------------------------------------------ *)

Jobs == {"A", "B"}

\* Python's None for a build number (last_build = None, lastBuild: null)
NoBuild == 0

\* a Python dict str -> str as a function on a set of keys
EmptyDict == [k \in {} |-> ""]

\* the rendering f"{job_name}#{build_number}" of a build key, kept as the pair
BuildKey(job, n) == <<job, n>>

KeyJob(key) == key[1]

\* key.startswith(f"{job_name}#"): job names of the model are not prefixes of
\* one another followed by '#'
KeyStartsWithJob(key, job) == KeyJob(key) = job

Min(a, b) == IF a <= b THEN a ELSE b

RECURSIVE SeqFilter(_, _)
SeqFilter(s, keep) ==
    IF s = <<>> THEN <<>>
    ELSE IF Head(s) \in keep THEN <<Head(s)>> \o SeqFilter(Tail(s), keep)
    ELSE SeqFilter(Tail(s), keep)

Range(s) == {s[i] : i \in 1..Len(s)}

(* ------------------------------------------------------------------ *)
(* Console logs and the LogInspector functions (utils/log_analyzer.py)  *)
(* A console log is a sequence of lines; a line is one of the shapes    *)
(* the regular expressions of log_analyzer.py tell apart.               *)
(* ------------------------------------------------------------------ *)

\* "FAIL: <name>"
FailLine(name) == [kind |-> "fail", name |-> name, n |-> 0]

\* "Tests run: a, Failures: n, Errors: 0, Skipped: 0"
JUnitLine(n) == [kind |-> "junit", name |-> "", n |-> n]

\* "Failed tests:" with no indented test name after it
FailedTestsLine == [kind |-> "failed_tests", name |-> "", n |-> 0]

\* "Could not find artifact a in b"
DepLine == [kind |-> "dep", name |-> "a", n |-> 0]

\* "Foo.java:[3,7] error: msg"
JavaErrLine == [kind |-> "compile_java", name |-> "msg", n |-> 3]

\* "foo.ts:3:7: error TS2304: msg"
TsErrLine == [kind |-> "compile_ts", name |-> "TS2304", n |-> 3]

\* "BUILD SUCCESSFUL"
SuccessLine == [kind |-> "build_successful", name |-> "", n |-> 0]

\* a line no pattern matches
TextLine == [kind |-> "text", name |-> "", n |-> 0]

\* an entry of test_results['failed_tests']: match.group(1), a str, or None when
\* the group did not take part in the match; "dict" is the shape
\* handle_test_failures reads (test.get('package'), test.get('name'))
TestStr(name) == [shape |-> "str", name |-> name, package |-> ""]

TestNone == [shape |-> "none", name |-> "", package |-> ""]

TestDict(name, package) == [shape |-> "dict", name |-> name, package |-> package]

RECURSIVE FailMatches(_)
FailMatches(log) ==
    IF log = <<>> THEN <<>>
    ELSE IF Head(log).kind = "fail"
         THEN <<TestStr(Head(log).name)>> \o FailMatches(Tail(log))
    ELSE FailMatches(Tail(log))

RECURSIVE FailedTestsMatches(_)
FailedTestsMatches(log) ==
    IF log = <<>> THEN <<>>
    ELSE IF Head(log).kind = "failed_tests"
         THEN <<TestNone>> \o FailedTestsMatches(Tail(log))
    ELSE FailedTestsMatches(Tail(log))

RECURSIVE JUnitFailures(_)
JUnitFailures(log) ==
    IF log = <<>> THEN 0
    ELSE (IF Head(log).kind = "junit" THEN Head(log).n ELSE 0) + JUnitFailures(Tail(log))

\* analyze_test_failures: the JUnit summary only adds to the counters; every
\* other match appends match.group(1) to failed_tests, pattern by pattern
analyze_test_failures(log) ==
    [failed_tests |-> FailMatches(log) \o FailedTestsMatches(log),
     failure_count |-> JUnitFailures(log)]

\* analyze_dependency_issues: one {'type': 'dependency_error', ...} per match
analyze_dependency_issues(log) ==
    SeqFilter([i \in 1..Len(log) |->
                 IF log[i].kind = "dep"
                 THEN [type |-> "dependency_error", name |-> log[i].name]
                 ELSE [type |-> "", name |-> ""]],
              {[type |-> "dependency_error", name |-> x] : x \in {"a"}})

\* analyze_compilation_issues: with the TypeScript pattern (two groups)
\* len(match.groups()) > 1 holds and int(match.group(1)) is int("TS2304"):
\* ValueError
CompilationRaises(log) == \E i \in 1..Len(log) : log[i].kind = "compile_ts"

analyze_compilation_issues(log) ==
    SeqFilter([i \in 1..Len(log) |->
                 IF log[i].kind = "compile_java"
                 THEN [type |-> "compilation_error", name |-> log[i].name]
                 ELSE [type |-> "", name |-> ""]],
              {[type |-> "compilation_error", name |-> x] : x \in {"msg"}})

(* ------------------------------------------------------------------ *)
(* Analyses (models/build.py) and pattern records                       *)
(* ------------------------------------------------------------------ *)

\* BuildAnalysis with its BuildInfo flattened; inp is what the CI server and
\* the Analyzer returned for the build, now the clock (datetime.now())
MakeAnalysis(job, n, inp, now) ==
    [job_name |-> job, build_number |-> n, result |-> inp.result,
     parameters |-> inp.parameters, duration |-> inp.duration,
     console_log |-> inp.console_log, error_patterns |-> inp.error_patterns,
     severity |-> inp.severity, timestamp |-> now]

\* an entry of error_patterns; type "unknown" stands for an entry without a
\* 'type' key (error_pattern.get('type', 'unknown'))
ErrorPattern(pattern, type) == [pattern |-> pattern, type |-> type]

\* solution None
NoSolution == [type |-> "none", parameters |-> EmptyDict, max_retries |-> 0]

RetrySolution == [type |-> "retry", parameters |-> EmptyDict, max_retries |-> 2]

AdjustSolution(params) == [type |-> "parameter_adjust", parameters |-> params, max_retries |-> 0]

NotifySolution == [type |-> "notification", parameters |-> EmptyDict, max_retries |-> 0]

\* an entry of a Failure record's contexts list
Context(an) ==
    [build_number |-> an.build_number, timestamp |-> an.timestamp,
     parameters |-> an.parameters, duration |-> an.duration]

\* A record of a job's collection.  type "none" stands for a dict without a
\* 'type' key: the records extract_patterns promotes and the ones
\* DatabaseService.get_patterns loads carry only pattern, frequency, last_seen
\* and solution.  Fields a variant does not have hold the neutral value.
PatternRecord(type, pattern, frequency, last_seen, solution) ==
    [type |-> type, pattern |-> pattern, frequency |-> frequency,
     last_seen |-> last_seen, solution |-> solution,
     severity |-> "", error_type |-> "", contexts |-> <<>>,
     success_rate |-> 0, duration_min |-> 0, duration_max |-> 0,
     parameter_changes |-> EmptyDict, success_build |-> NoBuild,
     failure_build |-> NoBuild]

\* pattern text tests of _derive_initial_solution ('timeout' in pattern.lower(),
\* 'out of memory' / 'oom' in pattern.lower()) over the texts of the model
ContainsTimeout(pattern) ==
    pattern \in {"Timeout after 600s", "TIMEOUT", "timeout, then out of memory"}

ContainsOom(pattern) ==
    pattern \in {"Killed: out of memory", "room full", "OOM killed", "timeout, then out of memory"}

\* a lookup that tries the pattern text before the error type
_derive_initial_solution_by_text(error_pattern) ==
    IF ContainsTimeout(error_pattern.pattern)
    THEN AdjustSolution([k \in {"timeout"} |-> "1800"])
    ELSE IF ContainsOom(error_pattern.pattern)
         THEN AdjustSolution([k \in {"memory"} |-> "4g"])
    ELSE IF error_pattern.type = "test_failure" THEN RetrySolution
    ELSE IF error_pattern.type = "dependency_issue"
         THEN AdjustSolution([k \in {"clean_dependencies"} |-> "true"])
    ELSE IF error_pattern.type = "compilation_error" THEN NotifySolution
    ELSE NoSolution

_derive_initial_solution(error_pattern) ==
    IF error_pattern.type = "test_failure" THEN RetrySolution
    ELSE IF error_pattern.type = "dependency_issue"
         THEN AdjustSolution([k \in {"clean_dependencies"} |-> "true"])
    ELSE IF error_pattern.type = "compilation_error" THEN NotifySolution
    ELSE IF ContainsTimeout(error_pattern.pattern)
         THEN AdjustSolution([k \in {"timeout"} |-> "1800"])
    ELSE IF ContainsOom(error_pattern.pattern)
         THEN AdjustSolution([k \in {"memory"} |-> "4g"])
    ELSE NoSolution

\* max() of two severity strings is Python's string maximum: the strings are
\* compared character by character, which orders "HIGH" < "LOW" < "MEDIUM"
StrOrder(s) == CASE s = "HIGH" -> 1 [] s = "LOW" -> 2 [] s = "MEDIUM" -> 3 [] OTHER -> 0

StrMax(a, b) == IF StrOrder(b) > StrOrder(a) THEN b ELSE a

(* ------------------------------------------------------------------ *)
(* The pattern store: a dict job -> list of records                     *)
(* ------------------------------------------------------------------ *)

\* self.pattern_database.get(job_name, [])
DbGet(db, job) == IF job \in DOMAIN db THEN db[job] ELSE <<>>

\* a store that writes a collection under every job name
DbPutAll(db, job, records) == [j \in DOMAIN db \cup {job} |-> records]

\* self.pattern_database[job_name] = records
DbPut(db, job, records) ==
    [j \in DOMAIN db \cup {job} |-> IF j = job THEN records ELSE db[j]]

\* a comparison with the first error pattern only
pattern_matches_first(pattern, an) ==
    /\ an.error_patterns # <<>>
    /\ an.error_patterns[1].pattern = pattern.pattern

\* pattern_matches: exact string equality with some error pattern
pattern_matches(pattern, an) ==
    \E i \in 1..Len(an.error_patterns) : an.error_patterns[i].pattern = pattern.pattern

\* match_known_patterns: the matching records of the job's collection, in order
match_known_patterns(db, an) ==
    LET records == DbGet(db, an.job_name)
    IN  SeqFilter(records, {records[i] : i \in {k \in 1..Len(records) :
                                                pattern_matches(records[k], an)}})

\* _compare_build_parameters: key -> {type, old, new}; None is ""
_compare_build_parameters(current_params, success_params) ==
    LET cur == DOMAIN current_params
        suc == DOMAIN success_params
        differs == {k \in cur \cup suc :
                      \/ k \notin cur
                      \/ k \notin suc
                      \/ current_params[k] # success_params[k]}
    IN  [k \in differs |->
           IF k \notin cur
           THEN [type |-> "removed", old |-> success_params[k], new |-> ""]
           ELSE IF k \notin suc
           THEN [type |-> "added", old |-> "", new |-> current_params[k]]
           ELSE [type |-> "changed", old |-> success_params[k],
                 new |-> current_params[k]]]

\* f"param_change_{hash(str(sorted(param_diff.items())))}": a string that is
\* a function of the diff
ParamChangeKey(diff) == "param_change_" \o ToString(diff)

\* The analysis cache is a dict build key -> analysis; a dict keeps the order
\* in which its keys were first inserted, so it is a sequence of analyses, the
\* key of an entry being f"{job_name}#{build_number}" of the analysis itself
CacheKeys(cache) == {BuildKey(cache[i].job_name, cache[i].build_number) : i \in 1..Len(cache)}

CacheIndex(cache, key) ==
    CHOOSE i \in 1..Len(cache) : BuildKey(cache[i].job_name, cache[i].build_number) = key

\* self.analysis_cache[cache_key] = analysis
CachePut(cache, an) ==
    LET key == BuildKey(an.job_name, an.build_number) IN
    IF key \in CacheKeys(cache)
    THEN [cache EXCEPT ![CacheIndex(cache, key)] = an]
    ELSE Append(cache, an)

\* the cached analyses of a job, in the order of the dict
RECURSIVE JobAnalyses(_, _)
JobAnalyses(cache, job) ==
    IF cache = <<>> THEN <<>>
    ELSE IF KeyStartsWithJob(BuildKey(Head(cache).job_name, Head(cache).build_number), job)
         THEN <<Head(cache)>> \o JobAnalyses(Tail(cache), job)
    ELSE JobAnalyses(Tail(cache), job)

\* a scan that takes every earlier build of the job, whatever its result
EarlierBuilds(cache, an) ==
    {i \in 1..Len(cache) :
        /\ KeyStartsWithJob(BuildKey(cache[i].job_name, cache[i].build_number), an.job_name)
        /\ cache[i].build_number < an.build_number}

\* a solution that names every parameter of the diff
RevertAllParameters(param_diff) == [k \in DOMAIN param_diff |-> param_diff[k].old]

\* {k: v['old'] for k, v in param_diff.items() if v['type'] == 'changed'}
RevertParameters(param_diff) ==
    [k \in {c \in DOMAIN param_diff : param_diff[c].type = "changed"} |-> param_diff[k].old]

\* the cached SUCCESS analyses of the job with a lower build number
PriorSuccesses(cache, an) ==
    {i \in 1..Len(cache) :
        /\ KeyStartsWithJob(BuildKey(cache[i].job_name, cache[i].build_number), an.job_name)
        /\ cache[i].result = "SUCCESS"
        /\ cache[i].build_number < an.build_number}

_correlate_failure_with_success(db, cache, an, now) ==
    LET prior == PriorSuccesses(cache, an) IN
    IF prior = {} THEN db
    ELSE
      LET latest_i == CHOOSE i \in prior :
                          \A other \in prior :
                             cache[other].build_number <= cache[i].build_number
          latest_success == cache[latest_i]
          param_diff == _compare_build_parameters(an.parameters, latest_success.parameters)
          correlation_pattern ==
            [PatternRecord("correlation", ParamChangeKey(param_diff), 1, now,
                           AdjustSolution(RevertParameters(param_diff)))
             EXCEPT !.parameter_changes = param_diff,
                    !.success_build = latest_success.build_number,
                    !.failure_build = an.build_number]
      IN  IF DOMAIN param_diff = {} THEN db
          ELSE DbPut(db, an.job_name, Append(DbGet(db, an.job_name), correlation_pattern))

\* index of the first record of the collection that update_failure_patterns
\* takes for the existing pattern (0: none)
ExistingFailure(records, pattern_key) ==
    LET hits == {i \in 1..Len(records) :
                    records[i].type = "failure" /\ records[i].pattern = pattern_key}
    IN  IF hits = {} THEN 0 ELSE CHOOSE i \in hits : \A k \in hits : i <= k

\* a slice that keeps the oldest entries: contexts[:10]
FirstContexts(contexts) ==
    IF Len(contexts) <= MaxContexts THEN contexts
    ELSE SubSeq(contexts, 1, MaxContexts)

\* contexts[-10:]
LastContexts(contexts) ==
    IF Len(contexts) <= MaxContexts THEN contexts
    ELSE SubSeq(contexts, Len(contexts) - MaxContexts + 1, Len(contexts))

\* the body of update_failure_patterns' loop for one error pattern
UpsertFailure(records, error_pattern, an, now) ==
    LET i == ExistingFailure(records, error_pattern.pattern) IN
    IF i # 0
    THEN [records EXCEPT ![i] =
            [@ EXCEPT !.frequency = @ + 1,
                      !.last_seen = now,
                      !.severity = StrMax(@, an.severity),
                      !.contexts = LastContexts(Append(@, Context(an)))]]
    ELSE Append(records,
            [PatternRecord("failure", error_pattern.pattern, 1, now,
                           _derive_initial_solution(error_pattern))
             EXCEPT !.severity = an.severity,
                    !.error_type = error_pattern.type,
                    !.contexts = <<Context(an)>>])

RECURSIVE UpsertFailures(_, _, _, _)
UpsertFailures(records, error_patterns, an, now) ==
    IF error_patterns = <<>> THEN records
    ELSE UpsertFailures(UpsertFailure(records, Head(error_patterns), an, now),
                        Tail(error_patterns), an, now)

\* update_failure_patterns (recordFailure), the correlation pass included
update_failure_patterns(db, cache, an, now) ==
    LET job == an.job_name
        db1 == DbPut(db, job, UpsertFailures(DbGet(db, job), an.error_patterns, an, now))
    IN  _correlate_failure_with_success(db1, cache, an, now)

(* ------------------------------------------------------------------ *)
(* Success patterns                                                     *)
(* ------------------------------------------------------------------ *)

StableParams == {"branch", "environment", "version"}

\* f"stable_params_{hash(str(sorted(param_indicators.items())))}"
StableParamsKey(param_indicators) == "stable_params_" \o ToString(param_indicators)

\* _extract_log_success_indicators: the literal phrases found in the log
_extract_log_success_indicators(console_log) ==
    (IF \E i \in 1..Len(console_log) : console_log[i].kind = "build_successful"
     THEN <<"log_success_build_successful">> ELSE <<>>)
    \o
    (IF \E i \in 1..Len(console_log) : console_log[i].kind = "all_tests_passed"
     THEN <<"log_success_all_tests_passed">> ELSE <<>>)

\* _extract_success_indicators: the pattern strings of the indicators
_extract_success_indicators(an) ==
    LET param_indicators ==
          [k \in StableParams \cap DOMAIN an.parameters |-> an.parameters[k]]
    IN  (IF DOMAIN param_indicators # {}
         THEN <<StableParamsKey(param_indicators)>> ELSE <<>>)
        \o
        (IF an.duration # 0
         THEN <<IF an.duration < FastDurationLimit THEN "timing_fast" ELSE "timing_normal">>
         ELSE <<>>)
        \o
        (IF an.console_log # <<>>
         THEN _extract_log_success_indicators(an.console_log) ELSE <<>>)

\* index of the record update_success_patterns takes for the existing pattern;
\* a Success record's 'indicator' is its 'pattern'
ExistingSuccess(records, indicator) ==
    LET hits == {i \in 1..Len(records) :
                    records[i].type = "success" /\ records[i].pattern = indicator}
    IN  IF hits = {} THEN 0 ELSE CHOOSE i \in hits : \A k \in hits : i <= k

\* an update whose success_rate has no cap
UpsertSuccessUncapped(records, indicator, an, now) ==
    LET i == ExistingSuccess(records, indicator) IN
    IF i # 0
    THEN [records EXCEPT ![i] =
            [@ EXCEPT !.frequency = @ + 1, !.last_seen = now, !.success_rate = @ + 1]]
    ELSE Append(records,
            [PatternRecord("success", indicator, 1, now, NoSolution)
             EXCEPT !.success_rate = 9,
                    !.duration_min = an.duration,
                    !.duration_max = an.duration])

\* success_rate in tenths: 0.9 is 9, min(1.0, rate + 0.1) is Min(10, rate + 1)
UpsertSuccess(records, indicator, an, now) ==
    LET i == ExistingSuccess(records, indicator) IN
    IF i # 0
    THEN [records EXCEPT ![i] =
            [@ EXCEPT !.frequency = @ + 1,
                      !.last_seen = now,
                      !.success_rate = Min(10, @ + 1)]]
    ELSE Append(records,
            [PatternRecord("success", indicator, 1, now, NoSolution)
             EXCEPT !.success_rate = 9,
                    !.duration_min = an.duration,
                    !.duration_max = an.duration])

RECURSIVE UpsertSuccesses(_, _, _, _)
UpsertSuccesses(records, indicators, an, now) ==
    IF indicators = <<>> THEN records
    ELSE UpsertSuccesses(UpsertSuccess(records, Head(indicators), an, now),
                         Tail(indicators), an, now)

\* update_success_patterns (recordSuccess)
update_success_patterns(db, an, now) ==
    DbPut(db, an.job_name,
          UpsertSuccesses(DbGet(db, an.job_name), _extract_success_indicators(an), an, now))

\* learn_from_build
learn_from_build(db, cache, an, now) ==
    IF an.result = "SUCCESS"
    THEN update_success_patterns(db, an, now)
    ELSE update_failure_patterns(db, cache, an, now)

(* ------------------------------------------------------------------ *)
(* The hourly passes                                                    *)
(* ------------------------------------------------------------------ *)

\* the error pattern strings of a list of analyses, one per entry, in order
RECURSIVE ErrorKeys(_)
ErrorKeys(analyses) ==
    IF analyses = <<>> THEN <<>>
    ELSE [i \in 1..Len(Head(analyses).error_patterns) |->
            Head(analyses).error_patterns[i].pattern]
         \o ErrorKeys(Tail(analyses))

\* a count that stops at the threshold
CountOfCapped(keys, key) ==
    Min(PromoteThreshold, Cardinality({i \in 1..Len(keys) : keys[i] = key}))

\* error_counts[key]
CountOf(keys, key) == Cardinality({i \in 1..Len(keys) : keys[i] = key})

\* the keys of error_counts in the order of their first insertion
RECURSIVE FirstOccurrences(_, _)
FirstOccurrences(keys, seen) ==
    IF keys = <<>> THEN <<>>
    ELSE IF Head(keys) \in seen THEN FirstOccurrences(Tail(keys), seen)
    ELSE <<Head(keys)>> \o FirstOccurrences(Tail(keys), seen \cup {Head(keys)})

\* extract_patterns: a record without 'type' for every key counted at least 3
\* times; derive_solution returns None
extract_patterns(analyses, now) ==
    LET keys == ErrorKeys(analyses)
        frequent == SeqFilter(FirstOccurrences(keys, {}),
                              {k \in Range(keys) : CountOf(keys, k) >= PromoteThreshold})
    IN  [i \in 1..Len(frequent) |->
           PatternRecord("none", frequent[i], CountOf(keys, frequent[i]), now, NoSolution)]

\* cleanup_patterns: a record is kept iff now - last_seen < timedelta(days=30)
KeepPattern(pattern, now) == now - pattern.last_seen < PatternTTLDays

RECURSIVE KeptPatterns(_, _)
KeptPatterns(records, now) ==
    IF records = <<>> THEN <<>>
    ELSE IF KeepPattern(Head(records), now)
         THEN <<Head(records)>> \o KeptPatterns(Tail(records), now)
    ELSE KeptPatterns(Tail(records), now)

cleanup_patterns(db, now) == [j \in DOMAIN db |-> KeptPatterns(db[j], now)]

\* the refresh of one job in update_pattern_database: extend the collection
\* by the promoted records when the cache holds an analysis of the job
RefreshJob(records, cache, job, now) ==
    LET recent_analyses == JobAnalyses(cache, job) IN
    IF recent_analyses # <<>>
    THEN records \o extract_patterns(recent_analyses, now)
    ELSE records

\* one pass of update_pattern_database: refresh every job, then prune
RefreshPass(db, cache, now) ==
    cleanup_patterns([j \in DOMAIN db |-> RefreshJob(db[j], cache, j, now)], now)

\* a sweep that also takes the entries whose age is the limit
ExpiredAtLimit(an, now) == now - an.timestamp >= CacheTTLDays

\* cleanup_cache: an entry expires iff now - analysis.timestamp > timedelta(days=7)
Expired(an, now) == now - an.timestamp > CacheTTLDays

RECURSIVE SweepCache(_, _)
SweepCache(cache, now) ==
    IF cache = <<>> THEN <<>>
    ELSE IF Expired(Head(cache), now) THEN SweepCache(Tail(cache), now)
    ELSE <<Head(cache)>> \o SweepCache(Tail(cache), now)

(* ------------------------------------------------------------------ *)
(* Remediation: handle_failure and what it calls                        *)
(* ------------------------------------------------------------------ *)

\* "; ".join(strings) and ", ".join(strings)
RECURSIVE Join(_, _)
Join(strings, sep) ==
    IF strings = <<>> THEN ""
    ELSE IF Len(strings) = 1 THEN Head(strings)
    ELSE Head(strings) \o sep \o Join(Tail(strings), sep)

\* the dict _record_action appends: 'timestamp' is datetime.now() at the
\* append; result holds the 'result' or 'action' entry, pattern "" is no
\* 'pattern' key
ActionRecord(type, pattern, result, now) ==
    [type |-> type, pattern |-> pattern, result |-> result, timestamp |-> now]

\* a ledger that puts the newest record first
_record_action_first(history, build_key, action) ==
    [k \in DOMAIN history \cup {build_key} |->
        IF k = build_key
        THEN <<action>> \o (IF k \in DOMAIN history THEN history[k] ELSE <<>>)
        ELSE history[k]]

\* _record_action: self.action_history[build_key].append(action)
_record_action(history, build_key, action) ==
    [k \in DOMAIN history \cup {build_key} |->
        IF k = build_key
        THEN Append(IF k \in DOMAIN history THEN history[k] ELSE <<>>, action)
        ELSE history[k]]

\* new_params = parameters.copy(); new_params.update(adjustments)
UpdatedParams(parameters, adjustments) ==
    [k \in DOMAIN parameters \cup DOMAIN adjustments |->
        IF k \in DOMAIN adjustments THEN adjustments[k] ELSE parameters[k]]

\* a call of self.jenkins.server.build_job(job, parameters); ok is whether the
\* CI server took it
Trigger(job, parameters, ok) == [job |-> job, parameters |-> parameters, ok |-> ok]

\* retry_build: the error of build_job is caught and rendered
retry_build(an, build_ok) ==
    [result |-> IF build_ok THEN "Build retried" ELSE "Retry failed",
     triggers |-> <<Trigger(an.job_name, an.parameters, build_ok)>>,
     parameters |-> an.parameters]

\* an adjustment that updates the parameter map of the analysis itself
adjust_build_parameters_in_place(an, adjustments, build_ok) ==
    [result |-> IF build_ok
                THEN "Build retried with adjusted parameters: " \o ToString(adjustments)
                ELSE "Parameter adjustment failed",
     triggers |-> <<Trigger(an.job_name, UpdatedParams(an.parameters, adjustments),
                            build_ok)>>,
     parameters |-> UpdatedParams(an.parameters, adjustments)]

\* adjust_build_parameters: the update goes to a copy, parameters is the map
\* of the analysis after the call
adjust_build_parameters(an, adjustments, build_ok) ==
    [result |-> IF build_ok
                THEN "Build retried with adjusted parameters: " \o ToString(adjustments)
                ELSE "Parameter adjustment failed",
     triggers |-> <<Trigger(an.job_name, UpdatedParams(an.parameters, adjustments),
                            build_ok)>>,
     parameters |-> an.parameters]

\* notify_team
notify_team(an) == [result |-> "Team notified", triggers |-> <<>>, parameters |-> an.parameters]

\* apply_known_solution: the string it returns, the records it appends to the
\* ledger and the builds it triggers
apply_known_solution(pattern, an, build_ok, now) ==
    LET solution == pattern.solution IN
    IF solution.type = "none"
    THEN [action |-> "No known solution", ledger |-> <<>>, triggers |-> <<>>,
          parameters |-> an.parameters]
    ELSE
      LET done == CASE solution.type = "retry" -> retry_build(an, build_ok)
                    [] solution.type = "parameter_adjust" ->
                         adjust_build_parameters(an, solution.parameters, build_ok)
                    [] OTHER -> notify_team(an)
      IN  [action |-> done.result,
           ledger |-> <<ActionRecord(solution.type, pattern.pattern, done.result, now)>>,
           triggers |-> done.triggers,
           parameters |-> done.parameters]

\* the known-pattern pass of handle_failure over the matches, in order
RECURSIVE KnownPatternPass(_, _, _, _)
KnownPatternPass(matches, an, build_ok, now) ==
    IF matches = <<>> THEN [actions |-> <<>>, ledger |-> <<>>, triggers |-> <<>>]
    ELSE
      LET first == apply_known_solution(Head(matches), an, build_ok, now)
          rest == KnownPatternPass(Tail(matches), an, build_ok, now)
      IN  [actions |-> <<first.action>> \o rest.actions,
           ledger |-> first.ledger
                      \o <<ActionRecord("pattern_match", Head(matches).pattern,
                                        first.action, now)>>
                      \o rest.ledger,
           triggers |-> first.triggers \o rest.triggers]

\* test.get('package', 'unknown') of the failed tests, in the order in which
\* failure_groups gets its keys
RECURSIVE Packages(_, _)
Packages(failed_tests, seen) ==
    IF failed_tests = <<>> THEN <<>>
    ELSE IF Head(failed_tests).package \in seen THEN Packages(Tail(failed_tests), seen)
    ELSE <<Head(failed_tests).package>>
         \o Packages(Tail(failed_tests), seen \cup {Head(failed_tests).package})

RECURSIVE TestsOf(_, _)
TestsOf(failed_tests, package) ==
    IF failed_tests = <<>> THEN <<>>
    ELSE IF Head(failed_tests).package = package
         THEN <<Head(failed_tests)>> \o TestsOf(Tail(failed_tests), package)
    ELSE TestsOf(Tail(failed_tests), package)

\* the actions of one failure group: more than 3 failures in a package are
\* one "environmental" action, otherwise one action per test
GroupActions(tests, package) ==
    IF Len(tests) > EnvironmentalThreshold
    THEN <<"Multiple failures in " \o package \o " - checking environment">>
    ELSE [i \in 1..Len(tests) |-> "Analyzing failure in " \o tests[i].name]

RECURSIVE AllGroupActions(_, _)
AllGroupActions(failed_tests, packages) ==
    IF packages = <<>> THEN <<>>
    ELSE GroupActions(TestsOf(failed_tests, Head(packages)), Head(packages))
         \o AllGroupActions(failed_tests, Tail(packages))

\* handle_test_failures: test.get(...) raises AttributeError on an entry that
\* is a str or None, in the first loop, before anything is done
handle_test_failures(test_results) ==
    LET failed_tests == test_results.failed_tests IN
    IF \E i \in 1..Len(failed_tests) : failed_tests[i].shape # "dict"
    THEN [raised |-> TRUE, action |-> ""]
    ELSE [raised |-> FALSE,
          action |-> Join(AllGroupActions(failed_tests, Packages(failed_tests, {})), "; ")]

\* handle_dependency_issues: an issue whose type is neither 'missing' nor
\* 'version_conflict' adds no action
RECURSIVE DependencyActions(_)
DependencyActions(issues) ==
    IF issues = <<>> THEN <<>>
    ELSE (CASE Head(issues).type = "missing" -> <<"Missing dependency: " \o Head(issues).name>>
            [] Head(issues).type = "version_conflict" ->
                 <<"Version conflict in " \o Head(issues).name>>
            [] OTHER -> <<>>)
         \o DependencyActions(Tail(issues))

handle_dependency_issues(issues) ==
    IF DependencyActions(issues) # <<>> THEN Join(DependencyActions(issues), "; ")
    ELSE "No dependency issues to handle"

\* handle_compilation_issues: likewise for 'syntax_error', 'type_error' and
\* 'import_error'
RECURSIVE CompilationActions(_)
CompilationActions(issues) ==
    IF issues = <<>> THEN <<>>
    ELSE (CASE Head(issues).type = "syntax_error" -> <<"Syntax error: " \o Head(issues).name>>
            [] Head(issues).type = "type_error" -> <<"Type error: " \o Head(issues).name>>
            [] Head(issues).type = "import_error" -> <<"Import error: " \o Head(issues).name>>
            [] OTHER -> <<>>)
         \o CompilationActions(Tail(issues))

handle_compilation_issues(issues) ==
    IF CompilationActions(issues) # <<>> THEN Join(CompilationActions(issues), "; ")
    ELSE "No compilation issues to handle"

\* an annotation whose error leaves handle_failure
update_build_description_uncaught(io) ==
    [posts |-> 1, post_failed |-> ~io.post_ok, raised |-> ~io.post_ok]

\* the try block around self.jenkins.update_build_description: one call, its
\* error is logged
update_build_description(io) ==
    [posts |-> 1, post_failed |-> ~io.post_ok, raised |-> FALSE]

\* handle_failure.  io.build_ok: build_job calls succeed; io.post_ok:
\* update_build_description succeeds.  The result: the records appended to
\* the ledger of the build, in order; the builds triggered; the number of
\* calls of update_build_description; whether an exception left the function.
handle_failure(db, an, io, now) ==
    LET known == KnownPatternPass(match_known_patterns(db, an), an, io.build_ok, now)
        log == an.console_log
        test_results == analyze_test_failures(log)
        dependency_issues == analyze_dependency_issues(log)
        compilation_issues == analyze_compilation_issues(log)
        tests == handle_test_failures(test_results)
        aborted == [ledger |-> known.ledger, triggers |-> known.triggers,
                    posts |-> 0, post_failed |-> FALSE, raised |-> TRUE]
        test_ledger ==
          IF test_results.failed_tests # <<>>
          THEN <<ActionRecord("test_failure", "", tests.action, now)>> ELSE <<>>
        dependency_ledger ==
          IF dependency_issues # <<>>
          THEN <<ActionRecord("dependency_issue", "",
                              handle_dependency_issues(dependency_issues), now)>>
          ELSE <<>>
        compilation_ledger ==
          IF compilation_issues # <<>>
          THEN <<ActionRecord("compilation_issue", "",
                              handle_compilation_issues(compilation_issues), now)>>
          ELSE <<>>
    IN  IF CompilationRaises(log) THEN aborted
        ELSE IF test_results.failed_tests # <<>> /\ tests.raised THEN aborted
        ELSE LET annotation == update_build_description(io) IN
             [ledger |-> known.ledger \o test_ledger \o dependency_ledger
                         \o compilation_ledger,
              triggers |-> known.triggers,
              posts |-> annotation.posts, post_failed |-> annotation.post_failed,
              raised |-> annotation.raised]

(* ------------------------------------------------------------------ *)
(* State                                                                *)
(* ------------------------------------------------------------------ *)

VARIABLES
    latest,            \* CI server: the number of each job's last build (NoBuild: none yet)
    clock,             \* datetime.now(), in days
    tasks,             \* the monitor_job tasks created so far: job_name, last_build, pc
    active_monitors,   \* self.active_monitors: job name -> index of its task
    supervisor,        \* monitor_builds: the sleep it is in (0: not yet run)
    analysis_cache,    \* self.analysis_cache
    pattern_database,  \* self.pattern_database
    action_history,    \* self.action_history
    load_pc,           \* the load_patterns task: "query" (awaiting the database) or "done"
    refreshes,         \* passes of update_pattern_database so far
    last               \* what the last analyze_and_act run did (an observation, read by no action)

vars == <<latest, clock, tasks, active_monitors, supervisor, analysis_cache,
          pattern_database, action_history, load_pc, refreshes, last>>

\* a monitor_job task: pc is "created" (not yet run), "sleep30" (in the
\* sleep after a poll), "sleep300" (in the back-off sleep) or "done"
MonitorTask(job, last_build, pc) == [job_name |-> job, last_build |-> last_build, pc |-> pc]

LiveTasks(job) == {t \in 1..Len(tasks) : tasks[t].job_name = job /\ tasks[t].pc # "done"}

\* the observation of an analyze_and_act run
Observation(op, job, build, hf, learned) ==
    [op |-> op, job |-> job, build |-> build,
     posts |-> hf.posts, post_failed |-> hf.post_failed, raised |-> hf.raised,
     appended |-> hf.ledger, triggers |-> hf.triggers, learned |-> learned]

\* handle_failure did not run
NotHandled == [ledger |-> <<>>, triggers |-> <<>>, posts |-> 0, post_failed |-> FALSE,
               raised |-> FALSE]

Init ==
    /\ latest = [j \in Jobs |-> NoBuild]
    /\ clock = 0
    /\ tasks = <<>>
    /\ active_monitors = EmptyDict
    /\ supervisor = 0
    /\ analysis_cache = <<>>
    /\ pattern_database = EmptyDict
    /\ action_history = EmptyDict
    /\ load_pc = "query"
    /\ refreshes = 0
    /\ last = Observation("none", "", NoBuild, NotHandled, FALSE)

(* ------------------------------------------------------------------ *)
(* Environment                                                          *)
(* ------------------------------------------------------------------ *)

\* the CI server starts (and finishes) the next build of a job
NewBuild(job) ==
    /\ latest[job] < MaxBuild
    /\ latest' = [latest EXCEPT ![job] = @ + 1]
    /\ UNCHANGED <<clock, tasks, active_monitors, supervisor, analysis_cache,
                   pattern_database, action_history, load_pc, refreshes, last>>

\* time passes
Tick(days) ==
    /\ clock + days <= MaxClock
    /\ clock' = clock + days
    /\ UNCHANGED <<latest, tasks, active_monitors, supervisor, analysis_cache,
                   pattern_database, action_history, load_pc, refreshes, last>>

(* ------------------------------------------------------------------ *)
(* The supervisor: monitor_builds                                       *)
(* ------------------------------------------------------------------ *)

\* a supervisor that never finds a handle in active_monitors
HasNoMonitor(job_name, monitors) == FALSE

\* job_name in self.active_monitors
HasMonitor(job_name, monitors) == job_name \in DOMAIN monitors

\* the for loop of monitor_builds over the discovered job names: a monitor
\* is created for a name that has no handle in active_monitors
RECURSIVE StartMonitors(_, _, _)
StartMonitors(names, monitors, created) ==
    IF names = <<>> THEN [monitors |-> monitors, tasks |-> created]
    ELSE IF ~HasMonitor(Head(names), monitors)
         THEN StartMonitors(Tail(names),
                            [j \in DOMAIN monitors \cup {Head(names)} |->
                                IF j = Head(names) THEN Len(created) + 1 ELSE monitors[j]],
                            Append(created, MonitorTask(Head(names), NoBuild, "created")))
    ELSE StartMonitors(Tail(names), monitors, created)

\* a supervisor that keeps the handles of finished tasks
KeepCompleted(monitors, created) == monitors

\* "Clean up completed monitors": the handles whose task is done are deleted
CleanUpCompleted(monitors, created) ==
    [j \in {k \in DOMAIN monitors : created[monitors[k]].pc # "done"} |-> monitors[j]]

\* one iteration of monitor_builds; names is what _get_all_jobs returned (the
\* empty list when the CI server could not be reached)
MonitorBuilds(names) ==
    LET started == StartMonitors(names, active_monitors, tasks) IN
    /\ Len(started.tasks) <= MaxTasks
    /\ tasks' = started.tasks
    /\ active_monitors' = CleanUpCompleted(started.monitors, started.tasks)
    /\ supervisor' = SupervisorInterval
    /\ UNCHANGED <<latest, clock, analysis_cache, pattern_database, action_history,
                   load_pc, refreshes, last>>

(* ------------------------------------------------------------------ *)
(* A monitor: monitor_job and analyze_and_act                           *)
(* ------------------------------------------------------------------ *)

\* the task is at a point where its loop runs another iteration
Runnable(t) == t \in 1..Len(tasks) /\ tasks[t].pc # "done"

\* an except branch that loses the build it was about to look at
AfterPollErrorSkipping(task) == [task EXCEPT !.pc = "sleep300", !.last_build = @ + 1]

\* an except branch that lets the error end the task
AfterPollErrorEnding(task) == [task EXCEPT !.pc = "done"]

\* a test that takes every reported build for a new one
NewBuildFoundAlways(latest_build, last_build) == latest_build # NoBuild

\* if latest_build and latest_build != last_build
NewBuildFound(latest_build, last_build) ==
    latest_build # NoBuild /\ latest_build # last_build

\* the except branch of monitor_job: log, then the 300 s sleep; last_build
\* is not assigned
AfterPollError(task) == [task EXCEPT !.pc = "sleep300"]

\* get_job_info raises (the CI server is unreachable), or the job has no
\* build yet and job_info.get('lastBuild', {}) is None, whose .get raises
MonitorJobPollError(t) ==
    /\ Runnable(t)
    /\ tasks' = [tasks EXCEPT ![t] = AfterPollError(@)]
    /\ UNCHANGED <<latest, clock, active_monitors, supervisor, analysis_cache,
                   pattern_database, action_history, load_pc, refreshes, last>>

\* the poll finds no new build: latest_build == last_build
MonitorJobIdle(t) ==
    /\ Runnable(t)
    /\ latest[tasks[t].job_name] # NoBuild
    /\ ~NewBuildFound(latest[tasks[t].job_name], tasks[t].last_build)
    /\ tasks' = [tasks EXCEPT ![t].pc = "sleep30"]
    /\ UNCHANGED <<latest, clock, active_monitors, supervisor, analysis_cache,
                   pattern_database, action_history, load_pc, refreshes, last>>

\* what monitor_job does after analyze_and_act has returned: last_build =
\* latest_build, then the 30 s sleep
AfterAnalyzeAndAct(t, latest_build) ==
    tasks' = [tasks EXCEPT ![t].last_build = latest_build, ![t].pc = "sleep30"]

\* the poll finds a new build and analyzer.analyze_build raises (the CI server
\* or the Analyzer fails): analyze_and_act logs the error and returns
MonitorJobAnalyzerError(t) ==
    LET job == tasks[t].job_name IN
    /\ Runnable(t)
    /\ NewBuildFound(latest[job], tasks[t].last_build)
    /\ AfterAnalyzeAndAct(t, latest[job])
    /\ last' = Observation("analyzer_error", job, latest[job], NotHandled, FALSE)
    /\ UNCHANGED <<latest, clock, active_monitors, supervisor, analysis_cache,
                   pattern_database, action_history, load_pc, refreshes>>

\* the ledger after the records of a handle_failure run have been appended
RECURSIVE RecordActions(_, _, _)
RecordActions(history, build_key, actions) ==
    IF actions = <<>> THEN history
    ELSE RecordActions(_record_action(history, build_key, Head(actions)),
                       build_key, Tail(actions))

\* a test that sends every analyzed build to handle_failure
HandlesEveryBuild(an) == TRUE

\* if analysis.build_info.result != 'SUCCESS'
ResultIsNotSuccess(an) == an.result # "SUCCESS"

\* the poll finds a new build and the analysis succeeds: the body of
\* analyze_and_act.  An exception that leaves handle_failure is caught by
\* analyze_and_act's except: learn_from_build is then not reached.
MonitorJobAnalyze(t, inp, io) ==
    LET job == tasks[t].job_name
        analysis == MakeAnalysis(job, latest[job], inp, clock)
        cache == CachePut(analysis_cache, analysis)
        failed == ResultIsNotSuccess(analysis)
        hf == IF failed THEN handle_failure(pattern_database, analysis, io, clock)
              ELSE NotHandled
        learned == ~hf.raised
    IN
    /\ Runnable(t)
    /\ NewBuildFound(latest[job], tasks[t].last_build)
    /\ analysis_cache' = cache
    /\ action_history' = RecordActions(action_history, BuildKey(job, latest[job]), hf.ledger)
    /\ pattern_database' = IF learned
                           THEN learn_from_build(pattern_database, cache, analysis, clock)
                           ELSE pattern_database
    /\ AfterAnalyzeAndAct(t, latest[job])
    /\ last' = Observation("analyzed", job, latest[job], hf, learned)
    /\ UNCHANGED <<latest, clock, active_monitors, supervisor, load_pc, refreshes>>

\* the task is cancelled in its sleep: CancelledError is no Exception, so
\* the loop's except does not catch it and the task ends, its locals with it
MonitorJobCancelled(t) ==
    /\ Runnable(t)
    /\ tasks[t].pc # "created"
    /\ tasks' = [tasks EXCEPT ![t] = MonitorTask(tasks[t].job_name, NoBuild, "done")]
    /\ UNCHANGED <<latest, clock, active_monitors, supervisor, analysis_cache,
                   pattern_database, action_history, load_pc, refreshes, last>>

(* ------------------------------------------------------------------ *)
(* The background tasks                                                 *)
(* ------------------------------------------------------------------ *)

\* load_patterns gets the answer of its query: the loaded mapping replaces
\* self.pattern_database; on an error the mapping is {}
LoadPatterns(patterns) ==
    /\ load_pc = "query"
    /\ load_pc' = "done"
    /\ pattern_database' = patterns
    /\ UNCHANGED <<latest, clock, tasks, active_monitors, supervisor, analysis_cache,
                   action_history, refreshes, last>>

\* one iteration of update_pattern_database
UpdatePatternDatabase ==
    /\ refreshes < MaxRefresh
    /\ refreshes' = refreshes + 1
    /\ pattern_database' = RefreshPass(pattern_database, analysis_cache, clock)
    /\ UNCHANGED <<latest, clock, tasks, active_monitors, supervisor, analysis_cache,
                   action_history, load_pc, last>>

\* one iteration of cleanup_cache
CleanupCache ==
    /\ analysis_cache' = SweepCache(analysis_cache, clock)
    /\ analysis_cache' # analysis_cache
    /\ UNCHANGED <<latest, clock, tasks, active_monitors, supervisor, pattern_database,
                   action_history, load_pc, refreshes, last>>

(* ------------------------------------------------------------------ *)
(* Inputs                                                               *)
(* ------------------------------------------------------------------ *)

\* what the CI server and the Analyzer return for a build
Input(result, error_patterns, console_log, parameters, duration, severity) ==
    [result |-> result, error_patterns |-> error_patterns, console_log |-> console_log,
     parameters |-> parameters, duration |-> duration, severity |-> severity]

ParamsProd == [k \in {"environment"} |-> "prod"]

ParamsStaging == [k \in {"environment"} |-> "staging"]

\* a console log with four failing tests of package pkg.A
LogFourFailures ==
    <<FailLine("pkg.A.t1"), FailLine("pkg.A.t2"), FailLine("pkg.A.t3"), FailLine("pkg.A.t4")>>

\* a failed build with one error pattern and nothing for the log passes
InFailure ==
    Input("FAILURE", <<ErrorPattern("x", "test_failure")>>, <<TextLine>>,
          ParamsStaging, 400, "HIGH")

\* the same failure with four failing tests in the log
InFailureTests ==
    Input("FAILURE", <<ErrorPattern("x", "test_failure")>>, LogFourFailures,
          ParamsStaging, 400, "HIGH")

\* a failed build with a dependency error and a Java compilation error
InFailureIssues ==
    Input("FAILURE", <<ErrorPattern("y", "unknown")>>, <<DepLine, JavaErrLine>>,
          ParamsProd, 400, "LOW")

InSuccess ==
    Input("SUCCESS", <<>>, <<SuccessLine>>, ParamsProd, 100, "LOW")

\* a failure whose analysis names the same error pattern twice
InFailureTwice ==
    Input("FAILURE", <<ErrorPattern("x", "test_failure"), ErrorPattern("x", "test_failure")>>,
          <<TextLine>>, ParamsStaging, 400, "HIGH")

\* the inputs of the whole system
SysInputs == {InFailureTests}

\* the inputs of the single job
JobInputs == {InFailure, InFailureTests, InFailureTwice, InFailureIssues, InSuccess}

\* the CI server takes, or refuses, the build triggers and the annotation
IOs == [build_ok : BOOLEAN, post_ok : BOOLEAN]

AllOk == [build_ok |-> TRUE, post_ok |-> TRUE]

\* what _get_all_jobs may return: the full names of the discovered jobs
DiscoveryResults == {<<>>, <<"A">>, <<"A", "B">>, <<"B", "A", "A">>}

\* what DatabaseService.get_patterns may return ({} also stands for a failed load)
StoreContents ==
    {EmptyDict, [j \in {"A"} |-> <<PatternRecord("none", "x", 3, 0, NoSolution)>>]}

TickDays == {PatternTTLDays}

(* ------------------------------------------------------------------ *)
(* The system                                                           *)
(* ------------------------------------------------------------------ *)

\* the whole system: the supervisor and the monitors of both jobs
Next ==
    \/ \E job \in Jobs : NewBuild(job)
    \/ \E names \in DiscoveryResults : MonitorBuilds(names)
    \/ \E t \in 1..MaxTasks : MonitorJobPollError(t)
    \/ \E t \in 1..MaxTasks : MonitorJobIdle(t)
    \/ \E t \in 1..MaxTasks : MonitorJobAnalyzerError(t)
    \/ \E t \in 1..MaxTasks, inp \in SysInputs : MonitorJobAnalyze(t, inp, AllOk)
    \/ \E t \in 1..MaxTasks : MonitorJobCancelled(t)

Spec == Init /\ [][Next]_vars

\* one job with its monitor, the background tasks and the clock
NextJob ==
    \/ NewBuild("A")
    \/ \E days \in TickDays : Tick(days)
    \/ MonitorBuilds(<<"A">>)
    \/ MonitorJobPollError(1)
    \/ MonitorJobIdle(1)
    \/ MonitorJobAnalyzerError(1)
    \/ \E inp \in JobInputs, io \in IOs : MonitorJobAnalyze(1, inp, io)
    \/ \E patterns \in StoreContents : LoadPatterns(patterns)
    \/ UpdatePatternDatabase
    \/ CleanupCache

SpecJob == Init /\ [][NextJob]_vars

(* ------------------------------------------------------------------ *)
(* recordFailure on its own: update_failure_patterns applied twice to  *)
(* a store, with one analysis                                          *)
(* ------------------------------------------------------------------ *)

\* the analyses recordFailure is given
RecordAnalyses ==
    {MakeAnalysis("A", n, inp, 0) : n \in 1..MaxBuild, inp \in JobInputs \ {InSuccess}}

\* the stores it is applied to: a loaded store, or one that has learned a failure
RecordBaselines ==
    StoreContents \cup
    {update_failure_patterns(db, <<>>, MakeAnalysis("A", 1, inp, 0), 0) :
        db \in StoreContents, inp \in JobInputs \ {InSuccess}}

\* the caches the correlation pass reads
RecordCaches == {<<>>, <<MakeAnalysis("A", 1, InSuccess, 0)>>}

InitRecord ==
    /\ latest = [j \in Jobs |-> NoBuild]
    /\ clock = 0
    /\ tasks = <<>>
    /\ active_monitors = EmptyDict
    /\ supervisor = 0
    /\ analysis_cache \in RecordCaches
    /\ pattern_database \in RecordBaselines
    /\ action_history = EmptyDict
    /\ load_pc = "done"
    /\ refreshes = 0
    /\ \E an \in RecordAnalyses :
          last = [op |-> "none", analysis |-> an, baseline |-> pattern_database]

\* self.update_failure_patterns(analysis), for the first and the second time
RecordFailure ==
    /\ last.op \in {"none", "once"}
    /\ pattern_database' =
          update_failure_patterns(pattern_database, analysis_cache, last.analysis, clock)
    /\ last' = [last EXCEPT !.op = IF @ = "none" THEN "once" ELSE "twice"]
    /\ UNCHANGED <<latest, clock, tasks, active_monitors, supervisor, analysis_cache,
                   action_history, load_pc, refreshes>>

NextRecord == RecordFailure

SpecRecord == InitRecord /\ [][NextRecord]_vars

(* ------------------------------------------------------------------ *)
(* Properties of the monitors (Spec)                                   *)
(* ------------------------------------------------------------------ *)

\* C1: at every moment at most one monitor task is live for a job name, and
\* a live task is the one the job's handle in active_monitors refers to
OneMonitorPerJob ==
    \A job \in Jobs :
       /\ Cardinality(LiveTasks(job)) <= 1
       /\ \A t \in LiveTasks(job) :
             job \in DOMAIN active_monitors /\ active_monitors[job] = t

\* a job's monitor has ended, its handle was discarded and the supervisor has
\* started the job's second monitor
MonitorRestarted ==
    \E job \in Jobs :
       /\ \E t \in 1..Len(tasks) : tasks[t].job_name = job /\ tasks[t].pc = "done"
       /\ Cardinality(LiveTasks(job)) = 1

\* C2: last_known_build advances to build n only after n has been analyzed
\* and its analysis put into the cache: the build a monitor has advanced to
\* is in the cache (nothing is evicted in Spec)
AdvancedOnlyAfterCached ==
    \A t \in 1..Len(tasks) :
       tasks[t].last_build # NoBuild =>
          BuildKey(tasks[t].job_name, tasks[t].last_build) \in CacheKeys(analysis_cache)

\* C3: a poll that raises leaves last_build as it was and puts the monitor
\* into the back-off sleep, from which it polls again; the builds of the job
\* and the cache are as before, so the pending build is found by a later poll
PollErrorKeepsLastBuild ==
    [][\A t \in 1..Len(tasks) :
          MonitorJobPollError(t) =>
             /\ tasks'[t].last_build = tasks[t].last_build
             /\ tasks'[t].pc = "sleep300"
             /\ latest' = latest
             /\ analysis_cache' = analysis_cache]_vars

\* a monitor in the back-off sleep that has analyzed a build before, with a
\* newer build of its job waiting
PollErrorWithBuildPending ==
    \E t \in 1..Len(tasks) :
       /\ tasks[t].pc = "sleep300"
       /\ tasks[t].last_build # NoBuild
       /\ latest[tasks[t].job_name] > tasks[t].last_build

\* C4: an error while polling or analyzing (get_job_info, analyze_build or
\* handle_failure raises) does not end the monitor, and leaves every other
\* task, the handles and the supervisor as they were
ErrorsStayInTheirMonitor ==
    [][\A t \in 1..Len(tasks) :
          (\/ MonitorJobPollError(t)
           \/ MonitorJobAnalyzerError(t)
           \/ \E inp \in SysInputs : MonitorJobAnalyze(t, inp, AllOk) /\ last'.raised)
          =>
             /\ tasks'[t].pc # "done"
             /\ Len(tasks') = Len(tasks)
             /\ \A u \in 1..Len(tasks) : u # t => tasks'[u] = tasks[u]
             /\ active_monitors' = active_monitors
             /\ supervisor' = supervisor]_vars

\* handle_failure has raised in one job's monitor, which sleeps its 30 s,
\* while another job's monitor is in the sleep after one of its own polls
HandlerErrorBesideLiveMonitor ==
    /\ last.op = "analyzed"
    /\ last.raised
    /\ \E t, u \in 1..Len(tasks) :
          /\ tasks[t].job_name = last.job
          /\ tasks[t].last_build = last.build
          /\ tasks[t].pc = "sleep30"
          /\ tasks[u].job_name # last.job
          /\ tasks[u].pc = "sleep300"

(* ------------------------------------------------------------------ *)
(* Properties of remediation and learning (SpecJob, SpecRecord)        *)
(* ------------------------------------------------------------------ *)

\* C5: handle_failure on a build that matches one known pattern and whose
\* log has 4 failing tests of pkg.A appends a pattern_match record and a
\* test_failure record, the latter with the single environmental action
KnownPatternAndTestPass ==
    [][\A io \in IOs :
          (/\ MonitorJobAnalyze(1, InFailureTests, io)
           /\ Len(match_known_patterns(pattern_database,
                     MakeAnalysis("A", latest["A"], InFailureTests, clock))) = 1)
          =>
             /\ \E i \in 1..Len(last'.appended) : last'.appended[i].type = "pattern_match"
             /\ \E i \in 1..Len(last'.appended) :
                   /\ last'.appended[i].type = "test_failure"
                   /\ last'.appended[i].result =
                         "Multiple failures in pkg.A - checking environment"]_vars

\* C6: analyze_and_act on a non-SUCCESS build of a job with an empty
\* collection and no earlier non-SUCCESS build appends no pattern_match
\* record, calls update_build_description once and leaves one Failure
\* record of frequency 1 for each error pattern of the analysis (stated for
\* the analyses whose error patterns have pairwise different keys)
FirstFailureOfJob ==
    [][\A inp \in JobInputs, io \in IOs :
          (/\ MonitorJobAnalyze(1, inp, io)
           /\ inp.result # "SUCCESS"
           /\ \A a, b \in 1..Len(inp.error_patterns) :
                 a # b => inp.error_patterns[a].pattern # inp.error_patterns[b].pattern
           /\ DbGet(pattern_database, "A") = <<>>
           /\ \A i \in 1..Len(analysis_cache) : analysis_cache[i].result = "SUCCESS")
          =>
             /\ \A i \in 1..Len(last'.appended) : last'.appended[i].type # "pattern_match"
             /\ last'.posts = 1
             /\ \A k \in 1..Len(inp.error_patterns) :
                   LET records == DbGet(pattern_database', "A")
                       hits == {i \in 1..Len(records) :
                                  /\ records[i].type = "failure"
                                  /\ records[i].pattern = inp.error_patterns[k].pattern}
                   IN  /\ Cardinality(hits) = 1
                       /\ \A i \in hits : records[i].frequency = 1]_vars

\* C7: when the test-failure pass of handle_failure raises, the pass is
\* still recorded in the ledger of the build, update_build_description is
\* called and learn_from_build runs
RaisingPassIsRecorded ==
    [][\A inp \in JobInputs, io \in IOs :
          (/\ MonitorJobAnalyze(1, inp, io)
           /\ inp.result # "SUCCESS"
           /\ analyze_test_failures(inp.console_log).failed_tests # <<>>
           /\ handle_test_failures(analyze_test_failures(inp.console_log)).raised)
          =>
             /\ \E i \in 1..Len(last'.appended) : last'.appended[i].type = "test_failure"
             /\ last'.posts = 1
             /\ last'.learned]_vars

\* C8: when update_build_description raises, handle_failure returns
\* normally, the ledger of the build is its old content followed by the
\* records of this run, and learn_from_build runs on the analysis
AnnotationIsBestEffort ==
    [][\A inp \in JobInputs, io \in IOs :
          (MonitorJobAnalyze(1, inp, io) /\ last'.post_failed)
          =>
             LET key == BuildKey("A", latest["A"])
                 old == IF key \in DOMAIN action_history THEN action_history[key] ELSE <<>>
                 new == IF key \in DOMAIN action_history' THEN action_history'[key] ELSE <<>>
             IN  /\ ~last'.raised
                 /\ new = old \o last'.appended
                 /\ last'.learned
                 /\ pattern_database' =
                       learn_from_build(pattern_database, analysis_cache',
                                        MakeAnalysis("A", latest["A"], inp, clock), clock)]_vars

\* the annotation of a build could not be posted: the records of the run are
\* in the ledger and the store holds the Failure record of the build
AnnotationFailedAndLearned ==
    /\ last.op = "analyzed"
    /\ last.post_failed
    /\ last.learned
    /\ last.appended # <<>>
    /\ BuildKey(last.job, last.build) \in DOMAIN action_history
    /\ \E i \in 1..Len(DbGet(pattern_database, last.job)) :
          /\ pattern_database[last.job][i].type = "failure"
          /\ pattern_database[last.job][i].contexts # <<>>
          /\ pattern_database[last.job][i].contexts[
                Len(pattern_database[last.job][i].contexts)].build_number = last.build

\* C9: a job's collection holds at most one Failure record and at most one
\* Success record per pattern key; a Failure record is a record of an error
\* pattern, which is every record that is neither a Success nor a
\* Correlation record
OneRecordPerKey ==
    \A job \in DOMAIN pattern_database :
       \A i, k \in 1..Len(pattern_database[job]) :
          (/\ i # k
           /\ pattern_database[job][i].pattern = pattern_database[job][k].pattern)
          =>
             /\ pattern_database[job][i].type \in {"success", "correlation"}
                \/ pattern_database[job][k].type \in {"success", "correlation"}
             /\ ~(/\ pattern_database[job][i].type = "success"
                  /\ pattern_database[job][k].type = "success")

\* C10: after two calls of update_failure_patterns with one analysis the
\* collection holds, for each error pattern of the analysis, one Failure
\* record with that key, its frequency 2 above that of the record before the
\* calls (0 when there was none); stated for the analyses whose error
\* patterns have pairwise different keys
TwiceAddsTwo ==
    (/\ last.op = "twice"
     /\ \A a, b \in 1..Len(last.analysis.error_patterns) :
           a # b => last.analysis.error_patterns[a].pattern
                       # last.analysis.error_patterns[b].pattern)
    =>
       \A e \in 1..Len(last.analysis.error_patterns) :
          LET key == last.analysis.error_patterns[e].pattern
              before == DbGet(last.baseline, "A")
              after == DbGet(pattern_database, "A")
              was == {i \in 1..Len(before) :
                        /\ before[i].pattern = key
                        /\ before[i].type \notin {"success", "correlation"}}
              is == {i \in 1..Len(after) :
                       /\ after[i].pattern = key
                       /\ after[i].type \notin {"success", "correlation"}}
          IN  /\ Cardinality(is) = 1
              /\ Cardinality(was) <= 1
              /\ \A i \in is :
                    after[i].frequency =
                       (IF was = {} THEN 0 ELSE before[CHOOSE w \in was : TRUE].frequency) + 2

(* ------------------------------------------------------------------ *)
(* Repeat observations of one failure pattern (SpecRepeat)             *)
(* ------------------------------------------------------------------ *)

\* failed builds that all name the pattern "x", with different severities
\* and parameters
RepeatInputs ==
    {Input("FAILURE", <<ErrorPattern("x", "test_failure")>>, <<TextLine>>,
           params, 400, severity) :
        <<params, severity>> \in {<<ParamsStaging, "HIGH">>, <<ParamsProd, "MEDIUM">>,
                                  <<ParamsStaging, "LOW">>}}

InitRepeat ==
    /\ latest = [j \in Jobs |-> NoBuild]
    /\ clock = 0
    /\ tasks = <<>>
    /\ active_monitors = EmptyDict
    /\ supervisor = 0
    /\ analysis_cache = <<>>
    /\ pattern_database = EmptyDict
    /\ action_history = EmptyDict
    /\ load_pc = "done"
    /\ refreshes = 0
    /\ last = [op |-> "none", history |-> <<>>, before |-> "", given |-> ""]

\* self.update_failure_patterns(analysis) for the next failed build of job A;
\* last.history is every context handed to the record so far, last.before the
\* severity the record had before the call
ObserveFailure(inp) ==
    LET an == MakeAnalysis("A", Len(last.history) + 1, inp, clock)
        records == DbGet(pattern_database, "A")
        i == ExistingFailure(records, "x")
    IN
    /\ Len(last.history) < MaxObservations
    /\ pattern_database' = update_failure_patterns(pattern_database, analysis_cache, an, clock)
    /\ last' = [op |-> "observed",
                history |-> Append(last.history, Context(an)),
                before |-> IF i = 0 THEN "" ELSE records[i].severity,
                given |-> an.severity]
    /\ UNCHANGED <<latest, clock, tasks, active_monitors, supervisor, analysis_cache,
                   action_history, load_pc, refreshes>>

NextRepeat == \E inp \in RepeatInputs : ObserveFailure(inp)

SpecRepeat == InitRepeat /\ [][NextRepeat]_vars

\* C11: the context list of a Failure record has at most 10 entries, and
\* they are the 10 most recently appended contexts in the order of their
\* insertion
ContextsAreTheLastTen ==
    \A i \in 1..Len(DbGet(pattern_database, "A")) :
       LET contexts == pattern_database["A"][i].contexts
           history == last.history
       IN  /\ Len(contexts) <= 10
           /\ Len(contexts) = Min(10, Len(history))
           /\ \A k \in 1..Len(contexts) :
                 contexts[k] = history[Len(history) - Len(contexts) + k]

\* the record has been observed 12 times: the two oldest contexts are gone
OldestContextsDropped ==
    /\ Len(last.history) = 12
    /\ \E i \in 1..Len(DbGet(pattern_database, "A")) :
          /\ Len(pattern_database["A"][i].contexts) = 10
          /\ pattern_database["A"][i].contexts[1].build_number = 3

\* C12: after a repeat observation the severity of the record is the
\* maximum of its old severity and the severity of the analysis under the
\* order HIGH > MEDIUM > LOW
SeverityIsRaisedToMax ==
    (last.op = "observed" /\ last.before # "") =>
       LET rank(sev) == CASE sev = "HIGH" -> 3 [] sev = "MEDIUM" -> 2 [] OTHER -> 1
           record == pattern_database["A"][ExistingFailure(pattern_database["A"], "x")]
       IN  /\ rank(record.severity) >= rank(last.before)
           /\ rank(record.severity) >= rank(last.given)
           /\ record.severity \in {last.before, last.given}

(* ------------------------------------------------------------------ *)
(* The prune pass and the cache sweep at their age limits (SpecTTL)    *)
(* ------------------------------------------------------------------ *)

\* the days on which records were last seen and analyses were made
StampDays == {0, 1, 2}

\* the days on which the passes run: ages 6..8 and 29..31
PassDays == {CacheTTLDays + 1, PatternTTLDays + 1}

\* collections of job A: a Failure, a Success and a promoted record
StoresTTL ==
    {[j \in {"A"} |-> <<PatternRecord("failure", "x", 1, a, RetrySolution),
                        PatternRecord("success", "timing_fast", 1, b, NoSolution),
                        PatternRecord("none", "x", 3, c, NoSolution)>>] :
        a \in StampDays, b \in StampDays, c \in StampDays}

\* caches with the analyses of builds 1 and 2 of job A
CachesTTL ==
    {<<MakeAnalysis("A", 1, InSuccess, a), MakeAnalysis("A", 2, InFailure, b)>> :
        a \in StampDays, b \in StampDays}

InitTTL ==
    /\ latest = [j \in Jobs |-> NoBuild]
    /\ clock \in PassDays
    /\ tasks = <<>>
    /\ active_monitors = EmptyDict
    /\ supervisor = 0
    /\ analysis_cache \in CachesTTL
    /\ pattern_database \in StoresTTL
    /\ action_history = EmptyDict
    /\ load_pc = "done"
    /\ refreshes = 0
    /\ last = [op |-> "none", store |-> pattern_database, cache |-> analysis_cache]

\* self.cleanup_patterns(); last holds the store and the cache before the pass
PrunePass ==
    /\ pattern_database' = cleanup_patterns(pattern_database, clock)
    /\ last' = [op |-> "prune", store |-> pattern_database, cache |-> analysis_cache]
    /\ UNCHANGED <<latest, clock, tasks, active_monitors, supervisor, analysis_cache,
                   action_history, load_pc, refreshes>>

\* the body of cleanup_cache's loop
SweepPass ==
    /\ analysis_cache' = SweepCache(analysis_cache, clock)
    /\ last' = [op |-> "sweep", store |-> pattern_database, cache |-> analysis_cache]
    /\ UNCHANGED <<latest, clock, tasks, active_monitors, supervisor, pattern_database,
                   action_history, load_pc, refreshes>>

NextTTL == PrunePass \/ SweepPass

SpecTTL == InitTTL /\ [][NextTTL]_vars

\* C13: the prune pass removes a record iff now - last_seen > 30 days (a
\* record of exactly 30 days stays), and the records that stay keep their
\* order
PruneKeepsThirtyDays ==
    last.op = "prune" =>
       \A job \in DOMAIN last.store :
          LET before == last.store[job]
              after == pattern_database[job]
              keep == {i \in 1..Len(before) : clock - before[i].last_seen <= 30}
          IN  /\ Len(after) = Cardinality(keep)
              /\ \A k \in 1..Len(after) :
                    after[k] = before[CHOOSE i \in keep :
                                         Cardinality({j \in keep : j <= i}) = k]

\* C14: the cache sweep removes an entry iff now - timestamp > 7 days (an
\* entry of exactly 7 days stays), and the entries that stay keep their order
SweepKeepsSevenDays ==
    last.op = "sweep" =>
       LET before == last.cache
           after == analysis_cache
           keep == {i \in 1..Len(before) : clock - before[i].timestamp <= 7}
       IN  /\ Len(after) = Cardinality(keep)
           /\ \A k \in 1..Len(after) :
                 after[k] = before[CHOOSE i \in keep :
                                      Cardinality({j \in keep : j <= i}) = k]

\* a sweep has removed an entry of 8 days and kept one of exactly 7 days
SweptAtSevenDays ==
    /\ last.op = "sweep"
    /\ \E i \in 1..Len(last.cache) : clock - last.cache[i].timestamp = 8
    /\ Len(analysis_cache) = 1
    /\ clock - analysis_cache[1].timestamp = 7

(* ------------------------------------------------------------------ *)
(* Batch extraction (SpecExtract): one refresh pass over a cache that  *)
(* holds a batch of analyses of job A, whose collection is empty       *)
(* ------------------------------------------------------------------ *)

\* the error patterns an analysis of the batch names
BatchPatterns ==
    {<<>>,
     <<ErrorPattern("x", "test_failure")>>,
     <<ErrorPattern("y", "unknown")>>,
     <<ErrorPattern("x", "test_failure"), ErrorPattern("y", "unknown")>>,
     <<ErrorPattern("x", "test_failure"), ErrorPattern("x", "test_failure")>>}

\* the caches: builds 1..MaxBatch of job A, every choice of their patterns
Batches ==
    {[n \in 1..MaxBatch |->
         MakeAnalysis("A", n,
                      Input("FAILURE", choice[n], <<TextLine>>, ParamsStaging, 400, "HIGH"),
                      0)] :
        choice \in [1..MaxBatch -> BatchPatterns]}

InitExtract ==
    /\ latest = [j \in Jobs |-> NoBuild]
    /\ clock = 0
    /\ tasks = <<>>
    /\ active_monitors = EmptyDict
    /\ supervisor = 0
    /\ analysis_cache \in Batches
    /\ pattern_database = [j \in {"A"} |-> <<>>]
    /\ action_history = EmptyDict
    /\ load_pc = "done"
    /\ refreshes = 0
    /\ last = Observation("none", "", NoBuild, NotHandled, FALSE)

NextExtract == UpdatePatternDatabase

SpecExtract == InitExtract /\ [][NextExtract]_vars

ParamChoices ==
    {[k \in {"env", "branch"} |-> IF k = "env" THEN "prod" ELSE "main"],
     [k \in {"env", "branch"} |-> IF k = "env" THEN "staging" ELSE "main"],
     [k \in {"env"} |-> "staging"],
     [k \in {"env", "branch", "region"} |->
         IF k = "env" THEN "staging" ELSE IF k = "branch" THEN "main" ELSE "eu"]}

\* an analysis of a build with a result and parameters
BuildWith(job, n, result, parameters) ==
    MakeAnalysis(job, n, Input(result, <<ErrorPattern("x", "test_failure")>>, <<TextLine>>,
                               parameters, 400, "HIGH"), 0)

\* caches: build 2 of A, a successful build 1 of B, build 1 of A, in the
\* order of their insertion
CachesCorrelate ==
    {<<BuildWith("A", 2, r2, p2), BuildWith("B", 1, "SUCCESS", pb), BuildWith("A", 1, r1, p1)>> :
        r1 \in {"SUCCESS", "FAILURE"}, r2 \in {"SUCCESS", "FAILURE"},
        p1 \in ParamChoices, p2 \in ParamChoices,
        pb \in {[k \in {"env"} |-> "prod"]}}

\* the failing builds of A that are correlated
FailuresCorrelate ==
    {BuildWith("A", n, "FAILURE", p) : n \in {1, 2, 3}, p \in ParamChoices}

InitCorrelate ==
    /\ latest = [j \in Jobs |-> NoBuild]
    /\ clock = 0
    /\ tasks = <<>>
    /\ active_monitors = EmptyDict
    /\ supervisor = 0
    /\ analysis_cache \in CachesCorrelate
    /\ pattern_database \in StoreContents
    /\ action_history = EmptyDict
    /\ load_pc = "done"
    /\ refreshes = 0
    /\ \E an \in FailuresCorrelate :
          last = [op |-> "none", analysis |-> an, store |-> pattern_database]

\* self._correlate_failure_with_success(analysis)
Correlate ==
    /\ last.op = "none"
    /\ pattern_database' =
          _correlate_failure_with_success(pattern_database, analysis_cache, last.analysis, clock)
    /\ last' = [last EXCEPT !.op = "correlated"]
    /\ UNCHANGED <<latest, clock, tasks, active_monitors, supervisor, analysis_cache,
                   action_history, load_pc, refreshes>>

NextCorrelate == Correlate

SpecCorrelate == InitCorrelate /\ [][NextCorrelate]_vars

\* C16: the solution of the Correlation record maps exactly the parameters
\* that both builds have with different values to the value of the
\* successful build; unchanged, added and removed parameters are not in it
SolutionRevertsChanged ==
    (last.op = "correlated" /\ pattern_database # last.store) =>
       LET an == last.analysis
           records == pattern_database["A"]
           record == records[Len(records)]
           success == analysis_cache[CHOOSE i \in 1..Len(analysis_cache) :
                                       /\ analysis_cache[i].job_name = "A"
                                       /\ analysis_cache[i].build_number = record.success_build]
           changed == {k \in DOMAIN an.parameters \cap DOMAIN success.parameters :
                          an.parameters[k] # success.parameters[k]}
       IN  /\ record.type = "correlation"
           /\ record.solution.type = "parameter_adjust"
           /\ DOMAIN record.solution.parameters = changed
           /\ \A k \in changed : record.solution.parameters[k] = success.parameters[k]

\* success {env: prod, branch: main}, failure {env: staging, branch: main}:
\* the solution is env -> prod
RevertsEnvOnly ==
    /\ last.op = "correlated"
    /\ last.analysis.parameters =
          [k \in {"env", "branch"} |-> IF k = "env" THEN "staging" ELSE "main"]
    /\ \E i \in 1..Len(DbGet(pattern_database, "A")) :
          /\ pattern_database["A"][i].type = "correlation"
          /\ pattern_database["A"][i].parameter_changes # EmptyDict
          /\ pattern_database["A"][i].solution.parameters = [k \in {"env"} |-> "prod"]

\* C17: the failing build is compared with the cached SUCCESS analysis of
\* its job that has the highest build number below its own; with no such
\* analysis or an empty parameter diff the store is unchanged, otherwise
\* exactly one Correlation record of the two builds is appended
CorrelatesWithLastSuccess ==
    last.op = "correlated" =>
       LET an == last.analysis
           prior == {i \in 1..Len(analysis_cache) :
                       /\ analysis_cache[i].job_name = an.job_name
                       /\ analysis_cache[i].result = "SUCCESS"
                       /\ analysis_cache[i].build_number < an.build_number}
           top == CHOOSE i \in prior :
                     \A o \in prior :
                        analysis_cache[o].build_number <= analysis_cache[i].build_number
           same == /\ DOMAIN an.parameters = DOMAIN analysis_cache[top].parameters
                   /\ \A k \in DOMAIN an.parameters :
                         an.parameters[k] = analysis_cache[top].parameters[k]
           before == DbGet(last.store, "A")
           after == DbGet(pattern_database, "A")
       IN  IF prior = {} \/ same
           THEN pattern_database = last.store
           ELSE /\ Len(after) = Len(before) + 1
                /\ \A i \in 1..Len(before) : after[i] = before[i]
                /\ after[Len(after)].type = "correlation"
                /\ after[Len(after)].success_build = analysis_cache[top].build_number
                /\ after[Len(after)].failure_build = an.build_number
                /\ \A j \in DOMAIN last.store \ {"A"} : pattern_database[j] = last.store[j]

\* build 3 failed after the successful builds 1 and 2, whose parameters
\* differ from each other: the record names build 2
CorrelatedWithBuildTwo ==
    /\ last.op = "correlated"
    /\ last.analysis.build_number = 3
    /\ \E i, k \in 1..Len(analysis_cache) :
          /\ analysis_cache[i].job_name = "A" /\ analysis_cache[k].job_name = "A"
          /\ analysis_cache[i].build_number = 1 /\ analysis_cache[k].build_number = 2
          /\ analysis_cache[i].result = "SUCCESS" /\ analysis_cache[k].result = "SUCCESS"
          /\ analysis_cache[i].parameters # analysis_cache[k].parameters
          /\ analysis_cache[i].parameters = last.analysis.parameters
    /\ Len(DbGet(pattern_database, "A")) = Len(DbGet(last.store, "A")) + 1
    /\ pattern_database["A"][Len(pattern_database["A"])].success_build = 2

(* ------------------------------------------------------------------ *)
(* match on its own (SpecMatch)                                        *)
(* ------------------------------------------------------------------ *)

\* records of every variant, and without a variant, over three keys
RecordsMatch ==
    {PatternRecord(type, key, 1, 0, NoSolution) :
        type \in {"failure", "correlation", "success", "none"}, key \in {"x", "y", "z"}}

\* collections of job A with three records; job B holds a record of key "x"
StoresMatch ==
    {[j \in Jobs |-> IF j = "A" THEN records
                     ELSE <<PatternRecord("failure", "x", 1, 0, NoSolution)>>] :
        records \in [1..3 -> RecordsMatch]}

\* analyses of a failed build of A that name no, one or two of the keys "x", "y"
AnalysesMatch ==
    {MakeAnalysis("A", 1, Input("FAILURE", error_patterns, <<TextLine>>, ParamsStaging,
                                400, "HIGH"), 0) :
        error_patterns \in
           {<<>>} \cup {<<ErrorPattern(k, "unknown")>> : k \in {"x", "y"}}
                  \cup {<<ErrorPattern(k, "unknown"), ErrorPattern(l, "unknown")>> :
                          k \in {"x", "y"}, l \in {"x", "y"}}}

InitMatch ==
    /\ latest = [j \in Jobs |-> NoBuild]
    /\ clock = 0
    /\ tasks = <<>>
    /\ active_monitors = EmptyDict
    /\ supervisor = 0
    /\ analysis_cache = <<>>
    /\ pattern_database \in StoresMatch
    /\ action_history = EmptyDict
    /\ load_pc = "done"
    /\ refreshes = 0
    /\ \E an \in AnalysesMatch : last = [op |-> "none", analysis |-> an, matches |-> <<>>]

\* matches = self.match_known_patterns(analysis)
Match ==
    /\ last.op = "none"
    /\ last' = [last EXCEPT !.op = "matched",
                            !.matches = match_known_patterns(pattern_database, last.analysis)]
    /\ UNCHANGED <<latest, clock, tasks, active_monitors, supervisor, analysis_cache,
                   pattern_database, action_history, load_pc, refreshes>>

NextMatch == Match

SpecMatch == InitMatch /\ [][NextMatch]_vars

\* C18: match returns every Failure and Correlation record of the job's
\* collection whose key is the pattern string of some error pattern of the
\* analysis, and no record whose key is none of these strings; the records
\* it returns are records of the job's collection, in its order
MatchIsByExactKey ==
    last.op = "matched" =>
       LET records == pattern_database["A"]
           keys == {last.analysis.error_patterns[i].pattern :
                      i \in 1..Len(last.analysis.error_patterns)}
           hits == {i \in 1..Len(records) : records[i].pattern \in keys}
       IN  /\ \A i \in 1..Len(records) :
                (records[i].type \in {"failure", "correlation"} /\ records[i].pattern \in keys)
                => \E k \in 1..Len(last.matches) : last.matches[k] = records[i]
           /\ \A k \in 1..Len(last.matches) : last.matches[k].pattern \in keys
           /\ Len(last.matches) = Cardinality(hits)
           /\ \A k \in 1..Len(last.matches) :
                 last.matches[k] = records[CHOOSE i \in hits :
                                              Cardinality({j \in hits : j <= i}) = k]

\* an analysis that names "x" and "y" against a Failure record "y", a
\* record "z" and a Correlation record "x": the first and the last are returned
MatchedSecondPattern ==
    /\ last.op = "matched"
    /\ Len(last.analysis.error_patterns) = 2
    /\ last.analysis.error_patterns[1].pattern = "x"
    /\ pattern_database["A"][1].type = "failure"
    /\ pattern_database["A"][1].pattern = "y"
    /\ pattern_database["A"][2].pattern = "z"
    /\ pattern_database["A"][3].type = "correlation"
    /\ pattern_database["A"][3].pattern = "x"
    /\ last.matches = <<pattern_database["A"][1], pattern_database["A"][3]>>

(* ------------------------------------------------------------------ *)
(* Properties of the supervisor's tick (Spec)                          *)
(* ------------------------------------------------------------------ *)

\* C19 as stated: after a tick of monitor_builds every discovered job name
\* has a handle in active_monitors
EveryDiscoveredJobHasHandle ==
    [][\A names \in DiscoveryResults :
          MonitorBuilds(names) =>
             \A i \in 1..Len(names) : names[i] \in DOMAIN active_monitors']_vars

\* C19: after a tick of monitor_builds a discovered job name has a handle
\* iff its monitor had not finished before the tick; a name without a handle
\* gets a new task, a handle whose task has finished is discarded and its
\* job gets no task in this tick; no handle refers to a finished task
TickStartsAndDiscards ==
    [][\A names \in DiscoveryResults :
          MonitorBuilds(names) =>
             LET finished == {j \in DOMAIN active_monitors :
                                tasks[active_monitors[j]].pc = "done"}
                 discovered == {names[i] : i \in 1..Len(names)}
                 fresh == discovered \ DOMAIN active_monitors
             IN  /\ DOMAIN active_monitors' = (DOMAIN active_monitors \cup discovered) \ finished
                 /\ Len(tasks') = Len(tasks) + Cardinality(fresh)
                 /\ \A t \in 1..Len(tasks) : tasks'[t] = tasks[t]
                 /\ \A j \in fresh :
                       /\ active_monitors'[j] > Len(tasks)
                       /\ tasks'[active_monitors'[j]] = MonitorTask(j, NoBuild, "created")
                 /\ \A j \in DOMAIN active_monitors \ finished :
                       active_monitors'[j] = active_monitors[j]
                 /\ \A j \in DOMAIN active_monitors' :
                       tasks'[active_monitors'[j]].pc # "done"]_vars

\* a tick has discarded the handle of a job's finished monitor: the job has
\* no handle and no live task
FinishedHandleDiscarded ==
    \E job \in Jobs :
       /\ job \notin DOMAIN active_monitors
       /\ LiveTasks(job) = {}
       /\ \E t \in 1..Len(tasks) : tasks[t].job_name = job /\ tasks[t].pc = "done"

(* ------------------------------------------------------------------ *)
(* Job discovery: _get_all_jobs on bounded listings (SpecDiscover)     *)
(* ------------------------------------------------------------------ *)

\* longest top-level listing explored
MaxListing == 3

MultiBranchClass == "org.jenkinsci.plugins.workflow.multibranch.WorkflowMultiBranchProject"

FolderClass == "com.cloudbees.hudson.plugins.folder.Folder"

\* the server's answer to one get_jobs call: a listing, or an exception
Listing(jobs) == [ok |-> TRUE, jobs |-> jobs]

Failed == [ok |-> FALSE, jobs |-> <<>>]

\* job dicts as the server lists them; a container carries the answer the
\* server gives to the get_jobs call made for it
RegularJob(name) == [name |-> name, _class |-> "hudson.model.FreeStyleProject"]

Container(name, class, answer) == [name |-> name, _class |-> class, get_jobs |-> answer]

\* job['fullname'] = ...
WithFullname(job, fullname) ==
    [name |-> job.name, _class |-> job._class, fullname |-> fullname]

\* a discovery in which the failure of a container's get_jobs is not caught
AfterSubJobsErrorRaising(all_jobs) == [all_jobs |-> all_jobs, raised |-> TRUE]

\* except Exception as e: logger.warning(...) -- the loop goes on
AfterSubJobsError(all_jobs) == [all_jobs |-> all_jobs, raised |-> FALSE]

\* collect_jobs(jobs, prefix): the jobs appended to all_jobs, and whether an
\* exception left the call
RECURSIVE collect_jobs(_, _, _)
collect_jobs(jobs, prefix, all_jobs) ==
    IF jobs = <<>> THEN [all_jobs |-> all_jobs, raised |-> FALSE]
    ELSE LET job == Head(jobs)
             done ==
                CASE job._class = MultiBranchClass ->
                        IF ~job.get_jobs.ok THEN AfterSubJobsError(all_jobs)
                        ELSE LET multibranch_jobs == job.get_jobs.jobs
                             IN  [all_jobs |-> all_jobs \o
                                      [i \in 1..Len(multibranch_jobs) |->
                                          WithFullname(multibranch_jobs[i],
                                             prefix \o job.name \o "/" \o multibranch_jobs[i].name)],
                                  raised |-> FALSE]
                  [] job._class = FolderClass ->
                        IF ~job.get_jobs.ok THEN AfterSubJobsError(all_jobs)
                        ELSE LET inner == collect_jobs(job.get_jobs.jobs,
                                                       prefix \o job.name \o "/", all_jobs)
                             IN  IF inner.raised THEN AfterSubJobsError(inner.all_jobs)
                                 ELSE inner
                  [] OTHER ->
                        [all_jobs |-> Append(all_jobs, WithFullname(job, prefix \o job.name)),
                         raised |-> FALSE]
         IN  IF done.raised THEN done
             ELSE collect_jobs(Tail(jobs), prefix, done.all_jobs)

\* _get_all_jobs(): [] when the top-level listing fails or an exception
\* leaves collect_jobs
_get_all_jobs(top_level) ==
    IF ~top_level.ok THEN <<>>
    ELSE LET collected == collect_jobs(top_level.jobs, "", <<>>)
         IN  IF collected.raised THEN <<>> ELSE collected.all_jobs

\* job_name = job['fullname'] if 'fullname' in job else job['name']
DiscoveredNames(jobs) == [i \in 1..Len(jobs) |-> jobs[i].fullname]

BranchListings ==
    {Failed, Listing(<<RegularJob("main")>>), Listing(<<RegularJob("main"), RegularJob("dev")>>)}

InnerListings ==
    {Failed,
     Listing(<<RegularJob("A")>>),
     Listing(<<Container("M", MultiBranchClass, Failed), RegularJob("A")>>),
     Listing(<<RegularJob("A"), Container("G", FolderClass, Failed), RegularJob("B")>>),
     Listing(<<Container("M", MultiBranchClass, Listing(<<RegularJob("main")>>)),
               Container("G", FolderClass, Listing(<<RegularJob("B")>>))>>)}

ListedJobs ==
    {RegularJob("A"), RegularJob("B")}
    \cup {Container("M", MultiBranchClass, a) : a \in BranchListings}
    \cup {Container("F", FolderClass, a) : a \in InnerListings}

RECURSIVE ListingsUpTo(_)
ListingsUpTo(n) ==
    IF n = 0 THEN {<<>>}
    ELSE LET shorter == ListingsUpTo(n - 1)
         IN  shorter \cup {Append(l, j) : l \in shorter, j \in ListedJobs}

TopLevelAnswers == {Failed} \cup {Listing(l) : l \in ListingsUpTo(MaxListing)}

InitDiscover ==
    /\ latest = [j \in Jobs |-> NoBuild]
    /\ clock = 0
    /\ tasks = <<>>
    /\ active_monitors = EmptyDict
    /\ supervisor = 0
    /\ analysis_cache = <<>>
    /\ pattern_database = EmptyDict
    /\ action_history = EmptyDict
    /\ load_pc = "done"
    /\ refreshes = 0
    /\ \E top \in TopLevelAnswers : last = [op |-> "none", top_level |-> top, jobs |-> <<>>]

\* jobs = self._get_all_jobs()
Discover ==
    /\ last.op = "none"
    /\ last' = [last EXCEPT !.op = "discovered", !.jobs = _get_all_jobs(last.top_level)]
    /\ UNCHANGED <<latest, clock, tasks, active_monitors, supervisor, analysis_cache,
                   pattern_database, action_history, load_pc, refreshes>>

NextDiscover == Discover

SpecDiscover == InitDiscover /\ [][NextDiscover]_vars

\* C20: when the top-level listing succeeds, the jobs of every listing that
\* could be enumerated are in the returned list, whatever containers beside
\* or before them failed: every regular job under its prefixed name, every
\* sub-job of a multi-branch container that answered, at the top level and
\* inside folders that answered; jobs of one level keep their listed order
FailedContainerIsSkipped ==
    (last.op = "discovered" /\ last.top_level.ok) =>
       LET found == {last.jobs[k].fullname : k \in 1..Len(last.jobs)}
           top == last.top_level.jobs
           IsJob(j) == j._class \notin {MultiBranchClass, FolderClass}
           Answered(j, class) == j._class = class /\ j.get_jobs.ok
           BranchesIn(j, prefix) ==
               \A b \in 1..Len(j.get_jobs.jobs) :
                  (prefix \o j.name \o "/" \o j.get_jobs.jobs[b].name) \in found
       IN  /\ \A i \in 1..Len(top) :
                /\ IsJob(top[i]) => top[i].name \in found
                /\ Answered(top[i], MultiBranchClass) => BranchesIn(top[i], "")
                /\ Answered(top[i], FolderClass) =>
                      \A n \in 1..Len(top[i].get_jobs.jobs) :
                         LET sub == top[i].get_jobs.jobs[n]
                             prefix == top[i].name \o "/"
                         IN  /\ IsJob(sub) => (prefix \o sub.name) \in found
                             /\ Answered(sub, MultiBranchClass) => BranchesIn(sub, prefix)
                             /\ Answered(sub, FolderClass) =>
                                   \A m \in 1..Len(sub.get_jobs.jobs) :
                                      (prefix \o sub.name \o "/" \o sub.get_jobs.jobs[m].name) \in found
           /\ \A i \in 1..Len(top) : \A n \in 1..Len(top) :
                (i < n /\ IsJob(top[i]) /\ IsJob(top[n]))
                => \E k \in 1..Len(last.jobs) : \E l \in 1..Len(last.jobs) :
                      /\ k < l
                      /\ last.jobs[k].fullname = top[i].name
                      /\ last.jobs[l].fullname = top[n].name

\* a container between two jobs failed, and so did one inside a folder
\* that answered: the jobs before and after them were returned
JobsAroundFailuresFound ==
    /\ last.op = "discovered"
    /\ last.top_level = Listing(<<RegularJob("A"),
                                  Container("M", MultiBranchClass, Failed),
                                  Container("F", FolderClass,
                                     Listing(<<RegularJob("A"),
                                               Container("G", FolderClass, Failed),
                                               RegularJob("B")>>))>>)
    /\ DiscoveredNames(last.jobs) = <<"A", "F/A", "F/B">>

(* ------------------------------------------------------------------ *)
(* Job discovery against one server hierarchy (SpecServer)             *)
(* ------------------------------------------------------------------ *)

\* self.jenkins.server.get_jobs(folder_depth=1, ): the call names no
\* container, so its answer is the server's listing down to depth 1, the
\* top-level jobs followed by the jobs of each top-level container
RECURSIVE SubJobsOf(_)
SubJobsOf(jobs) ==
    IF jobs = <<>> THEN <<>>
    ELSE (IF Head(jobs)._class \in {MultiBranchClass, FolderClass}
          THEN Head(jobs).get_jobs.jobs ELSE <<>>) \o SubJobsOf(Tail(jobs))

get_jobs_depth1(hierarchy) == hierarchy \o SubJobsOf(hierarchy)

\* the answers _get_all_jobs receives on a hierarchy: get_jobs() lists the
\* top level, and every container's get_jobs(folder_depth=1) the same listing
AnswersOn(hierarchy) ==
    Listing([i \in 1..Len(hierarchy) |->
               IF hierarchy[i]._class \in {MultiBranchClass, FolderClass}
               THEN Container(hierarchy[i].name, hierarchy[i]._class,
                              Listing(get_jobs_depth1(hierarchy)))
               ELSE hierarchy[i]])

\* hierarchies of plain jobs and multi-branch containers, names distinct
Hierarchies ==
    LET items == {RegularJob("A"), RegularJob("B"),
                  Container("M", MultiBranchClass, Listing(<<RegularJob("main")>>)),
                  Container("M", MultiBranchClass,
                            Listing(<<RegularJob("main"), RegularJob("dev")>>)),
                  Container("N", MultiBranchClass, Listing(<<RegularJob("dev")>>)),
                  Container("N", MultiBranchClass, Listing(<<>>))}
        RECURSIVE UpTo(_)
        UpTo(n) == IF n = 0 THEN {<<>>}
                   ELSE LET shorter == UpTo(n - 1)
                        IN  shorter \cup
                            {Append(l, j) : l \in shorter,
                                            j \in items}
    IN  {h \in UpTo(MaxListing) :
            \A i \in 1..Len(h) : \A k \in 1..Len(h) : h[i].name = h[k].name => i = k}

InitServer ==
    /\ latest = [j \in Jobs |-> NoBuild]
    /\ clock = 0
    /\ tasks = <<>>
    /\ active_monitors = EmptyDict
    /\ supervisor = 0
    /\ analysis_cache = <<>>
    /\ pattern_database = EmptyDict
    /\ action_history = EmptyDict
    /\ load_pc = "done"
    /\ refreshes = 0
    /\ \E h \in Hierarchies :
          last = [op |-> "none", hierarchy |-> h, top_level |-> AnswersOn(h), jobs |-> <<>>]

SpecServer == InitServer /\ [][NextDiscover]_vars

\* C21: the list returned for a hierarchy of plain jobs and multi-branch
\* containers holds exactly the name of each plain job and container/branch
\* for each branch of each container, once each
DiscoveryFlattensHierarchy ==
    last.op = "discovered" =>
       LET h == last.hierarchy
           IsContainer(j) == j._class \in {MultiBranchClass, FolderClass}
           expected ==
              {h[i].name : i \in {k \in 1..Len(h) : ~IsContainer(h[k])}}
              \cup UNION {{h[i].name \o "/" \o h[i].get_jobs.jobs[b].name :
                              b \in 1..Len(h[i].get_jobs.jobs)} :
                          i \in {k \in 1..Len(h) : IsContainer(h[k])}}
       IN  /\ {last.jobs[k].fullname : k \in 1..Len(last.jobs)} = expected
           /\ Len(last.jobs) = Cardinality(expected)

\* C22: a tick of monitor_builds whose job discovery failed (the top-level
\* get_jobs raised) ends in the 300 s back-off
DiscoveryFailureBacksOff ==
    [][MonitorBuilds(DiscoveredNames(_get_all_jobs(Failed)))
          => supervisor' = SupervisorBackoff]_vars

(* ------------------------------------------------------------------ *)
(* Stopping the task that runs start() (SpecShutdown)                  *)
(* ------------------------------------------------------------------ *)

\* value of supervisor once the task running start() has been cancelled
SupervisorCancelled == 0 - 1

\* the task running start() is cancelled: asyncio.gather cancels
\* monitor_builds, update_pattern_database and cleanup_cache, whose
\* "except Exception" does not catch CancelledError, and start() ends. The
\* tasks monitor_builds created with asyncio.create_task are not children of
\* the gather and no code cancels or awaits them
StopStart ==
    /\ supervisor # SupervisorCancelled
    /\ supervisor' = SupervisorCancelled
    /\ UNCHANGED <<latest, clock, tasks, active_monitors, analysis_cache,
                   pattern_database, action_history, load_pc, refreshes, last>>

NextShutdown ==
    \/ \E job \in Jobs : NewBuild(job)
    \/ supervisor # SupervisorCancelled /\ \E names \in DiscoveryResults : MonitorBuilds(names)
    \/ \E t \in 1..MaxTasks : MonitorJobPollError(t)
    \/ \E t \in 1..MaxTasks : MonitorJobIdle(t)
    \/ \E t \in 1..MaxTasks : MonitorJobAnalyzerError(t)
    \/ \E t \in 1..MaxTasks, inp \in SysInputs : MonitorJobAnalyze(t, inp, AllOk)
    \/ StopStart

SpecShutdown == Init /\ [][NextShutdown]_vars

\* C23: once the task running start() has been stopped, no monitor task is
\* running: none is left unfinished and none takes a further step
NoMonitorRunsAfterShutdown ==
    [][supervisor = SupervisorCancelled =>
          /\ \A t \in 1..Len(tasks) : tasks[t].pc = "done"
          /\ tasks' = tasks]_vars

(* ------------------------------------------------------------------ *)
(* The Store                                                           *)
(* ------------------------------------------------------------------ *)

\* the rows the AgentManager has written to the Store since it was
\* constructed: save_analysis, save_pattern and save_action of
\* DatabaseService are called by no operation of the AgentManager (its only
\* calls are init_db and get_patterns), so no action adds a row
SavedRows == [analyses |-> <<>>, patterns |-> EmptyDict, actions |-> EmptyDict]

\* C24: after each completed operation the rows written to the Store mirror
\* the analysis cache, the patterns learned since start and the action ledger
StoreMirrorsMemory ==
    /\ analysis_cache = SavedRows.analyses
    /\ pattern_database = SavedRows.patterns
    /\ action_history = SavedRows.actions

(* ------------------------------------------------------------------ *)
(* A failed pattern load (SpecLoad)                                    *)
(* ------------------------------------------------------------------ *)

\* a load_patterns whose except branch leaves the store as it is
AfterLoadErrorKeeping(patterns) == patterns

\* except Exception as e: ... self.pattern_database = {}
AfterLoadError(patterns) == EmptyDict

\* load_patterns: await self.db.get_patterns() raises
LoadPatternsError ==
    /\ load_pc = "query"
    /\ load_pc' = "failed"
    /\ pattern_database' = AfterLoadError(pattern_database)
    /\ UNCHANGED <<latest, clock, tasks, active_monitors, supervisor, analysis_cache,
                   action_history, refreshes, last>>

NextLoad == NextJob \/ LoadPatternsError

SpecLoad == Init /\ [][NextLoad]_vars

\* C25: when the pattern load fails, the pattern store becomes the empty
\* mapping and the error reaches no other task: the monitors, their handles,
\* the supervisor, the cache and the ledger are as before, and the monitor
\* that was running can still run
FailedLoadDegradesToEmpty ==
    [][LoadPatternsError =>
          /\ pattern_database' = EmptyDict
          /\ tasks' = tasks
          /\ active_monitors' = active_monitors
          /\ supervisor' = supervisor
          /\ analysis_cache' = analysis_cache
          /\ action_history' = action_history
          /\ \A t \in 1..Len(tasks) : Runnable(t) => Runnable(t)']_vars

\* after the load failed, a build was analyzed and learned from: the store
\* holds records of the job, all of them learned now, and its monitor is alive
LearnedAfterFailedLoad ==
    /\ load_pc = "failed"
    /\ last.op = "analyzed"
    /\ last.learned
    /\ "A" \in DOMAIN pattern_database
    /\ pattern_database["A"] # <<>>
    /\ \A i \in 1..Len(pattern_database["A"]) : pattern_database["A"][i].last_seen = clock
    /\ clock > 0
    /\ Runnable(1)

(* ------------------------------------------------------------------ *)
(* The action ledger (SpecJob)                                         *)
(* ------------------------------------------------------------------ *)

\* C26: in every step each build key of the ledger keeps its list as a
\* prefix of its list afterwards; only the key of the analyzed build grows,
\* by exactly the records of that run in the order they were recorded, and
\* the refresh, prune, sweep and load steps leave the ledger as it is
LedgerIsAppendOnly ==
    [][/\ \A key \in DOMAIN action_history :
             /\ key \in DOMAIN action_history'
             /\ Len(action_history[key]) <= Len(action_history'[key])
             /\ \A i \in 1..Len(action_history[key]) :
                   action_history'[key][i] = action_history[key][i]
       /\ LET Old(key) == IF key \in DOMAIN action_history THEN action_history[key] ELSE <<>>
              grown == {key \in DOMAIN action_history' : action_history'[key] # Old(key)}
          IN  /\ Cardinality(grown) <= 1
              /\ \A key \in grown :
                    /\ last'.op = "analyzed"
                    /\ key = BuildKey(last'.job, last'.build)
                    /\ action_history'[key] = Old(key) \o last'.appended
       /\ (UpdatePatternDatabase \/ CleanupCache \/ \E days \in TickDays : Tick(days))
             => action_history' = action_history]_vars

\* both builds of the job have records in the ledger, one of them several,
\* and the hourly refresh with its prune has run
LedgerSurvivedRefresh ==
    /\ refreshes > 0
    /\ Cardinality(DOMAIN action_history) >= 2
    /\ \E key \in DOMAIN action_history : Len(action_history[key]) >= 2

(* ------------------------------------------------------------------ *)
(* _derive_initial_solution on error patterns (SpecDerive)             *)
(* ------------------------------------------------------------------ *)

PatternTypes == {"test_failure", "dependency_issue", "compilation_error", "unknown", "timeout"}

PatternTexts ==
    {"Timeout after 600s", "TIMEOUT", "timeout, then out of memory",
     "Killed: out of memory", "room full", "OOM killed",
     "connection timed out", "memory low", "test_failure", "x", "y", ""}

InitDerive ==
    /\ latest = [j \in Jobs |-> NoBuild]
    /\ clock = 0
    /\ tasks = <<>>
    /\ active_monitors = EmptyDict
    /\ supervisor = 0
    /\ analysis_cache = <<>>
    /\ pattern_database = EmptyDict
    /\ action_history = EmptyDict
    /\ load_pc = "done"
    /\ refreshes = 0
    /\ \E type \in PatternTypes, text \in PatternTexts :
          last = [op |-> "none", error_pattern |-> ErrorPattern(text, type),
                  solution |-> NoSolution]

\* 'solution': self._derive_initial_solution(error_pattern)
Derive ==
    /\ last.op = "none"
    /\ last' = [last EXCEPT !.op = "derived",
                            !.solution = _derive_initial_solution(last.error_pattern)]
    /\ UNCHANGED <<latest, clock, tasks, active_monitors, supervisor, analysis_cache,
                   pattern_database, action_history, load_pc, refreshes>>

NextDerive == Derive

SpecDerive == InitDerive /\ [][NextDerive]_vars

\* C27: the derived solution is that of the first rule that applies, in the
\* order test_failure -> retry with max 2 retries, dependency_issue ->
\* parameter adjust clean_dependencies, compilation_error -> notification,
\* text with "timeout" -> parameter adjust timeout, text with "out of memory"
\* or "oom" -> parameter adjust memory, and none when no rule applies
FirstMatchingRuleWins ==
    last.op = "derived" =>
       LET type == last.error_pattern.type
           text == last.error_pattern.pattern
           sol == last.solution
           typed == type \in {"test_failure", "dependency_issue", "compilation_error"}
       IN  /\ type = "test_failure" =>
                 sol.type = "retry" /\ sol.max_retries = 2
           /\ type = "dependency_issue" =>
                 /\ sol.type = "parameter_adjust"
                 /\ DOMAIN sol.parameters = {"clean_dependencies"}
                 /\ sol.parameters["clean_dependencies"] = "true"
           /\ type = "compilation_error" => sol.type = "notification"
           /\ (~typed /\ ContainsTimeout(text)) =>
                 /\ sol.type = "parameter_adjust"
                 /\ DOMAIN sol.parameters = {"timeout"}
                 /\ sol.parameters["timeout"] = "1800"
           /\ (~typed /\ ~ContainsTimeout(text) /\ ContainsOom(text)) =>
                 /\ sol.type = "parameter_adjust"
                 /\ DOMAIN sol.parameters = {"memory"}
                 /\ sol.parameters["memory"] = "4g"
           /\ (~typed /\ ~ContainsTimeout(text) /\ ~ContainsOom(text)) => sol.type = "none"

\* a test failure whose text also names a timeout and an out-of-memory
\* condition got the retry solution
TypeRuleWonOverText ==
    /\ last.op = "derived"
    /\ last.error_pattern = ErrorPattern("timeout, then out of memory", "test_failure")
    /\ last.solution = RetrySolution

(* ------------------------------------------------------------------ *)
(* apply_known_solution on one record (SpecApply)                      *)
(* ------------------------------------------------------------------ *)

SolutionsApply ==
    {NoSolution, RetrySolution, NotifySolution, AdjustSolution(EmptyDict),
     AdjustSolution([k \in {"timeout"} |-> "1800"]),
     AdjustSolution([k \in {"environment"} |-> "staging"]),
     AdjustSolution([k \in {"environment", "memory"} |->
                        IF k = "memory" THEN "4g" ELSE "prod"])}

ParametersApply ==
    {EmptyDict, ParamsProd,
     [k \in {"environment", "branch"} |-> IF k = "branch" THEN "main" ELSE "prod"]}

\* the ledger before: empty, or holding records under this and another key
LedgersApply ==
    {EmptyDict,
     [k \in {BuildKey("A", 2)} |-> <<ActionRecord("retry", "x", "Build retried", 0)>>],
     [k \in {BuildKey("A", 1), BuildKey("A", 2)} |->
         <<ActionRecord("notification", "y", "Team notified", 0)>>]}

InitApply ==
    /\ latest = [j \in Jobs |-> NoBuild]
    /\ clock = 1
    /\ tasks = <<>>
    /\ active_monitors = EmptyDict
    /\ supervisor = 0
    /\ analysis_cache = <<>>
    /\ pattern_database = EmptyDict
    /\ action_history \in LedgersApply
    /\ load_pc = "done"
    /\ refreshes = 0
    /\ \E solution \in SolutionsApply, parameters \in ParametersApply, build_ok \in BOOLEAN :
          last = [op |-> "none",
                  pattern |-> PatternRecord("failure", "x", 1, 0, solution),
                  analysis |-> BuildWith("A", 2, "FAILURE", parameters),
                  build_ok |-> build_ok,
                  history |-> action_history,
                  action |-> "", triggers |-> <<>>]

\* action = await self.apply_known_solution(pattern, analysis)
ApplyKnownSolution ==
    LET applied == apply_known_solution(last.pattern, last.analysis, last.build_ok, clock)
        an == last.analysis
    IN
    /\ last.op = "none"
    /\ action_history' = RecordActions(action_history,
                                       BuildKey(an.job_name, an.build_number), applied.ledger)
    /\ last' = [last EXCEPT !.op = "applied", !.action = applied.action,
                            !.triggers = applied.triggers,
                            !.analysis = [an EXCEPT !.parameters = applied.parameters]]
    /\ UNCHANGED <<latest, clock, tasks, active_monitors, supervisor, analysis_cache,
                   pattern_database, load_pc, refreshes>>

NextApply == ApplyKnownSolution

SpecApply == InitApply /\ [][NextApply]_vars

\* C28: a retry triggers one build of the job with the failed build's
\* parameters; a parameter adjustment triggers one build whose parameters
\* are the failed build's overridden by the solution's, and leaves the
\* analysis's own parameters as they were; a notification triggers none; in
\* each case, whether the trigger was taken or not, exactly one record with
\* the solution type, the pattern key and the outcome is appended under the
\* build key and nothing else in the ledger changes
ApplyTriggersAndRecords ==
    [][(ApplyKnownSolution /\ last.pattern.solution.type # "none") =>
          LET an == last.analysis
              sol == last.pattern.solution
              key == BuildKey(an.job_name, an.build_number)
              old == IF key \in DOMAIN action_history THEN action_history[key] ELSE <<>>
              trig == last'.triggers
          IN  /\ sol.type = "retry" =>
                    /\ Len(trig) = 1
                    /\ trig[1].job = an.job_name
                    /\ trig[1].parameters = an.parameters
              /\ sol.type = "parameter_adjust" =>
                    /\ Len(trig) = 1
                    /\ trig[1].job = an.job_name
                    /\ DOMAIN trig[1].parameters = DOMAIN an.parameters \cup DOMAIN sol.parameters
                    /\ \A k \in DOMAIN sol.parameters : trig[1].parameters[k] = sol.parameters[k]
                    /\ \A k \in DOMAIN an.parameters \ DOMAIN sol.parameters :
                          trig[1].parameters[k] = an.parameters[k]
              /\ sol.type = "notification" => trig = <<>>
              /\ last'.analysis = an
              /\ DOMAIN action_history' = DOMAIN action_history \cup {key}
              /\ \A k \in DOMAIN action_history \ {key} : action_history'[k] = action_history[k]
              /\ Len(action_history'[key]) = Len(old) + 1
              /\ \A i \in 1..Len(old) : action_history'[key][i] = old[i]
              /\ LET record == action_history'[key][Len(old) + 1]
                 IN  /\ record.type = sol.type
                     /\ record.pattern = last.pattern.pattern
                     /\ record.result = last'.action
                     /\ record.timestamp = clock]_vars

\* an adjustment that overrides a parameter of the failed build was applied,
\* the CI server refused the trigger, and the refusal is in the ledger
\* behind the record that was there
RefusedAdjustmentRecorded ==
    /\ last.op = "applied"
    /\ last.pattern.solution = AdjustSolution([k \in {"environment"} |-> "staging"])
    /\ last.analysis.parameters = ParamsProd
    /\ ~last.build_ok
    /\ Len(last.triggers) = 1
    /\ last.triggers[1].parameters = ParamsStaging
    /\ Len(action_history[BuildKey("A", 2)]) = 2
    /\ action_history[BuildKey("A", 2)][2].result = "Parameter adjustment failed"

(* ------------------------------------------------------------------ *)
(* Repeat observations of successful builds (SpecSuccess)              *)
(* ------------------------------------------------------------------ *)

\* successful builds: fast and normal, with and without stable parameters
\* and success phrases in the log
SuccessInputs ==
    {Input("SUCCESS", <<>>, <<SuccessLine>>, ParamsProd, 100, "LOW"),
     Input("SUCCESS", <<>>, <<TextLine>>, ParamsProd, 400, "LOW"),
     Input("SUCCESS", <<>>, <<>>, EmptyDict, 100, "LOW")}

InitSuccess ==
    /\ latest = [j \in Jobs |-> NoBuild]
    /\ clock = 0
    /\ tasks = <<>>
    /\ active_monitors = EmptyDict
    /\ supervisor = 0
    /\ analysis_cache = <<>>
    /\ pattern_database = EmptyDict
    /\ action_history = EmptyDict
    /\ load_pc = "done"
    /\ refreshes = 0
    /\ last = [op |-> "none", count |-> 0, before |-> <<>>, indicators |-> <<>>,
               duration |-> 0]

\* self.update_success_patterns(analysis) for the next successful build of
\* job A; last.before is the job's collection before the call,
\* last.indicators the indicators of the build and last.duration its duration
ObserveSuccess(inp) ==
    LET an == MakeAnalysis("A", last.count + 1, inp, clock) IN
    /\ last.count < MaxObservations
    /\ pattern_database' = update_success_patterns(pattern_database, an, clock)
    /\ last' = [op |-> "observed", count |-> last.count + 1,
                before |-> DbGet(pattern_database, "A"),
                indicators |-> _extract_success_indicators(an),
                duration |-> an.duration]
    /\ UNCHANGED <<latest, clock, tasks, active_monitors, supervisor, analysis_cache,
                   action_history, load_pc, refreshes>>

NextSuccess == \E inp \in SuccessInputs : ObserveSuccess(inp)

SpecSuccess == InitSuccess /\ [][NextSuccess]_vars

\* C29: in tenths, the success_rate of every Success record is between 0
\* and 10; a record that was there before the call keeps its place, its rate
\* is the old one plus 1 capped at 10 when the build showed its indicator
\* and the old one otherwise, so it never decreases; a new record starts at 9
SuccessRateStaysInUnitRange ==
    last.op = "observed" =>
       LET records == pattern_database["A"]
           before == last.before
           shown == {last.indicators[k] : k \in 1..Len(last.indicators)}
       IN  /\ \A i \in 1..Len(records) :
                 records[i].success_rate >= 0 /\ records[i].success_rate <= 10
           /\ Len(before) <= Len(records)
           /\ \A i \in 1..Len(before) :
                 /\ records[i].pattern = before[i].pattern
                 /\ records[i].success_rate >= before[i].success_rate
                 /\ records[i].success_rate =
                       IF before[i].pattern \in shown
                       THEN (IF before[i].success_rate + 1 > 10 THEN 10
                             ELSE before[i].success_rate + 1)
                       ELSE before[i].success_rate
           /\ \A i \in (Len(before) + 1)..Len(records) : records[i].success_rate = 9

\* an indicator at the cap was observed again and stayed at 1.0
RateStayedAtCap ==
    /\ last.op = "observed"
    /\ \E i \in 1..Len(last.before) :
          /\ last.before[i].success_rate = 10
          /\ \E k \in 1..Len(last.indicators) : last.indicators[k] = last.before[i].pattern
          /\ pattern_database["A"][i].success_rate = 10
          /\ pattern_database["A"][i].frequency = last.before[i].frequency + 1

(* ------------------------------------------------------------------ *)
(* Progress of the monitors under fair scheduling (SpecLive)           *)
(* ------------------------------------------------------------------ *)

\* a collaborator call of a monitor fails
CollaboratorFailure ==
    \E t \in 1..MaxTasks : MonitorJobPollError(t) \/ MonitorJobAnalyzerError(t)

\* the event loop runs every task that is ready: the supervisor's tick comes
\* round, and the poll of a monitor whose sleep is over is made; whether and
\* when the CI server starts a build or a collaborator fails is not fair
Fairness ==
    /\ WF_vars(\E names \in DiscoveryResults : MonitorBuilds(names))
    /\ \A t \in 1..MaxTasks :
          WF_vars(MonitorJobIdle(t) \/ \E inp \in SysInputs : MonitorJobAnalyze(t, inp, AllOk))

SpecLive == Init /\ [][Next]_vars /\ Fairness

\* C30: when from some point on no collaborator call fails, then for every
\* job eventually, and from then on, the latest build of the job is in the
\* analysis cache whenever the job has a live monitor
RecoveredBuildIsAnalyzed ==
    (<>[][~CollaboratorFailure]_vars) =>
       \A job \in Jobs :
          <>[](\A t \in 1..Len(tasks) :
                  (tasks[t].job_name = job /\ tasks[t].pc # "done" /\ latest[job] # NoBuild)
                  => BuildKey(job, latest[job]) \in CacheKeys(analysis_cache))

(* ------------------------------------------------------------------ *)
(* A build that is still running when it is detected (SpecProgress)    *)
(* ------------------------------------------------------------------ *)

\* JenkinsClient.get_build_info: a build without result is IN_PROGRESS while
\* it is building and UNKNOWN otherwise
get_build_info_result(result, building) ==
    IF result = "None" THEN (IF building THEN "IN_PROGRESS" ELSE "UNKNOWN") ELSE result

\* BuildAnalyzer.analyze_build: build_info.result = 'UNKNOWN' for a build in
\* progress
analyze_build_result(result) == IF result = "IN_PROGRESS" THEN "UNKNOWN" ELSE result

\* the analysis of a build that is still running: no result yet, duration 0
\* (build['duration'] or 0), and an error pattern found in the log so far
InSnapshot ==
    Input(analyze_build_result(get_build_info_result("None", TRUE)),
          <<ErrorPattern("x", "test_failure")>>, <<TextLine>>, ParamsStaging, 0, "MEDIUM")

\* the single job, some of whose builds are detected while they are running
NextProgress ==
    \/ NextJob
    \/ \E io \in IOs : MonitorJobAnalyze(1, InSnapshot, io)

SpecProgress == Init /\ [][NextProgress]_vars

\* C31: the analysis of a build that is still running does not advance
\* last_build, so that the build is analyzed again when it has finished, and
\* nothing is done on the snapshot: no build is triggered, no record is
\* appended to the ledger, no annotation is posted and no pattern is learned
SnapshotIsNotActedOn ==
    [][\A io \in IOs :
          MonitorJobAnalyze(1, InSnapshot, io) =>
             /\ tasks'[1].last_build = tasks[1].last_build
             /\ last'.triggers = <<>>
             /\ last'.appended = <<>>
             /\ last'.posts = 0
             /\ action_history' = action_history
             /\ pattern_database' = pattern_database]_vars

(* ------------------------------------------------------------------ *)
(* Learned records and the startup load (SpecJob)                      *)
(* ------------------------------------------------------------------ *)

\* C32: a record inserted by learning is in the job's collection after
\* every step, unless the step is a refresh pass whose prune removes it for
\* its age (30 days or more since it was last seen)
LearnedRecordsStay ==
    [][\A i \in 1..Len(DbGet(pattern_database, "A")) :
          LET record == pattern_database["A"][i]
              kept == \E k \in 1..Len(DbGet(pattern_database', "A")) :
                         /\ pattern_database'["A"][k].type = record.type
                         /\ pattern_database'["A"][k].pattern = record.pattern
          IN  record.type \in {"failure", "success", "correlation"} =>
                 \/ kept
                 \/ UpdatePatternDatabase /\ clock - record.last_seen >= PatternTTLDays]_vars

(* ------------------------------------------------------------------ *)
(* A run of failing builds with the same pattern (SpecRetry)           *)
(* ------------------------------------------------------------------ *)

\* number of failing builds in a run
MaxFailures == 4

\* failing builds that all show the test failure "x"
RetryInputs ==
    {Input("FAILURE", <<ErrorPattern("x", "test_failure")>>, <<TextLine>>,
           params, 400, severity) :
        params \in {ParamsStaging, ParamsProd}, severity \in {"HIGH", "LOW"}}

InitRetry ==
    /\ latest = [j \in Jobs |-> NoBuild]
    /\ clock = 0
    /\ tasks = <<>>
    /\ active_monitors = EmptyDict
    /\ supervisor = 0
    /\ analysis_cache = <<>>
    /\ pattern_database = EmptyDict
    /\ action_history = EmptyDict
    /\ load_pc = "done"
    /\ refreshes = 0
    /\ last = [op |-> "none", count |-> 0]

\* analyze_and_act for the next build of job A, a build the CI server
\* started by itself or on a re-trigger
AnalyzeNextFailure(inp) ==
    LET an == MakeAnalysis("A", last.count + 1, inp, clock)
        cache == CachePut(analysis_cache, an)
        hf == handle_failure(pattern_database, an, AllOk, clock)
    IN
    /\ last.count < MaxFailures
    /\ analysis_cache' = cache
    /\ action_history' = RecordActions(action_history, BuildKey("A", last.count + 1), hf.ledger)
    /\ pattern_database' = IF ~hf.raised
                           THEN learn_from_build(pattern_database, cache, an, clock)
                           ELSE pattern_database
    /\ last' = [op |-> "analyzed", count |-> last.count + 1]
    /\ UNCHANGED <<latest, clock, tasks, active_monitors, supervisor, load_pc, refreshes>>

NextRetry == \E inp \in RetryInputs : AnalyzeNextFailure(inp)

SpecRetry == InitRetry /\ [][NextRetry]_vars

\* C33: over a run of failing builds that match the Failure record "x",
\* whose solution is retry with max_retries 2, the ledger holds at most 2
\* retries made for that pattern
RetriesAreCapped ==
    LET retries ==
          {at \in UNION {{<<key, i>> : i \in 1..Len(action_history[key])} :
                            key \in DOMAIN action_history} :
              LET record == action_history[at[1]][at[2]]
              IN  /\ record.type = "retry"
                  /\ record.pattern = "x"
                  /\ record.result = "Build retried"}
    IN  (\A i \in 1..Len(DbGet(pattern_database, "A")) :
            pattern_database["A"][i].pattern = "x" =>
               pattern_database["A"][i].solution = RetrySolution)
        => Cardinality(retries) <= 2

(* ------------------------------------------------------------------ *)
(* The refresh pass run again on the same cache (SpecRefresh)          *)
(* ------------------------------------------------------------------ *)

\* a further iteration of update_pattern_database, an hour after an earlier
\* one; the analysis cache is as it was
UpdatePatternDatabaseAgain ==
    /\ refreshes >= 1
    /\ refreshes <= MaxRefresh
    /\ refreshes' = refreshes + 1
    /\ pattern_database' = RefreshPass(pattern_database, analysis_cache, clock)
    /\ UNCHANGED <<latest, clock, tasks, active_monitors, supervisor, analysis_cache,
                   action_history, load_pc, last>>

NextRefresh == UpdatePatternDatabase \/ UpdatePatternDatabaseAgain

SpecRefresh == InitExtract /\ [][NextRefresh]_vars

\* C34: a refresh pass that runs again with an unchanged analysis cache
\* leaves every job's collection as it was after the pass before
RefreshIsIdempotent ==
    [][UpdatePatternDatabaseAgain => pattern_database' = pattern_database]_vars

(* ------------------------------------------------------------------ *)
(* Tasks between a read and a write-back of a map (SpecAtomic)         *)
(* ------------------------------------------------------------------ *)

\* completed operations on the maps in a run
MaxPasses == 2

\* a monitor_job task, the update_pattern_database task and the
\* cleanup_cache task; all three run on the one event loop
AtomicTasks == {"monitor", "updater", "cleaner"}

\* the locals of a task: pc "await" (suspended in an await) or "between"
\* (it has read the maps and not yet written back), the maps as it read them
\* and the value it will write
Local(pc, read, held) == [pc |-> pc, read |-> read, held |-> held]

AtAwait == Local("await", <<EmptyDict, <<>>>>, EmptyDict)

\* The event loop runs another task only when the running one reaches an
\* await.  update_failure_patterns, update_success_patterns, extract_patterns
\* and cleanup_patterns are plain functions, and the loops of
\* update_pattern_database and cleanup_cache await only their sleep, after
\* the write-back.
YieldsAnywhere(pc) == TRUE

Yields(pc) == pc = "await"

OthersYield(t) == \A u \in AtomicTasks \ {t} : Yields(last.locals[u].pc)

\* the build whose analysis the monitor learns from
AtomicAnalysis == MakeAnalysis("A", 3, InFailure, clock)

\* what a task computes from the maps it read: the monitor the collection
\* after learn_from_build, the updater the store after its pass (promotion,
\* then cleanup_patterns), the cleaner the cache without the expired entries
HeldResult(t) ==
    CASE t = "monitor" -> learn_from_build(pattern_database, analysis_cache,
                                           AtomicAnalysis, clock)
      [] t = "updater" -> RefreshPass(pattern_database, analysis_cache, clock)
      [] t = "cleaner" -> SweepCache(analysis_cache, clock)

InitAtomic ==
    /\ latest = [j \in Jobs |-> NoBuild]
    /\ clock \in PassDays
    /\ tasks = <<>>
    /\ active_monitors = EmptyDict
    /\ supervisor = 0
    /\ analysis_cache \in CachesTTL
    /\ pattern_database \in StoresTTL
    /\ action_history = EmptyDict
    /\ load_pc = "done"
    /\ refreshes = 0
    /\ last = [locals |-> [t \in AtomicTasks |-> AtAwait], done |-> 0]

\* a task is scheduled and reads the maps
PassRead(t) ==
    /\ last.done < MaxPasses
    /\ last.locals[t].pc = "await"
    /\ OthersYield(t)
    /\ last' = [last EXCEPT !.locals[t] =
                    Local("between", <<pattern_database, analysis_cache>>, HeldResult(t))]
    /\ UNCHANGED <<latest, clock, tasks, active_monitors, supervisor, analysis_cache,
                   pattern_database, action_history, load_pc, refreshes>>

\* the task writes back what it computed and goes on to its next await
PassWriteBack(t) ==
    /\ last.locals[t].pc = "between"
    /\ IF t = "cleaner"
       THEN /\ analysis_cache' = last.locals[t].held
            /\ UNCHANGED pattern_database
       ELSE /\ pattern_database' = last.locals[t].held
            /\ UNCHANGED analysis_cache
    /\ last' = [last EXCEPT !.locals[t] = AtAwait, !.done = @ + 1]
    /\ UNCHANGED <<latest, clock, tasks, active_monitors, supervisor,
                   action_history, load_pc, refreshes>>

\* analyze_and_act caches the analysis in one assignment, before the awaits
\* of handle_failure
MonitorCachePut ==
    /\ last.locals["monitor"].pc = "await"
    /\ OthersYield("monitor")
    /\ BuildKey("A", 3) \notin CacheKeys(analysis_cache)
    /\ analysis_cache' = CachePut(analysis_cache, AtomicAnalysis)
    /\ UNCHANGED <<latest, clock, tasks, active_monitors, supervisor,
                   pattern_database, action_history, load_pc, refreshes, last>>

NextAtomic ==
    \/ \E t \in AtomicTasks : PassRead(t)
    \/ \E t \in AtomicTasks : PassWriteBack(t)
    \/ MonitorCachePut

SpecAtomic == InitAtomic /\ [][NextAtomic]_vars

\* C35: while a task is between its read and its write-back of a map, the
\* map is as the task read it: no other task has inserted, pruned, promoted
\* or swept in between, so the write-back loses no record of another task and
\* a sweep iterates over a cache that nothing changes under it
MapsAreAsRead ==
    \A t \in AtomicTasks :
        last.locals[t].pc = "between" =>
            /\ last.locals[t].read[2] = analysis_cache
            /\ t # "cleaner" => last.locals[t].read[1] = pattern_database

\* the monitor has learned from build 3 and the refresh pass, started after
\* it, is between its read and its write-back
RefreshAfterUpsert ==
    /\ last.locals["updater"].pc = "between"
    /\ \E i \in 1..Len(pattern_database["A"]) :
          /\ pattern_database["A"][i].type = "failure"
          /\ \E c \in 1..Len(pattern_database["A"][i].contexts) :
                pattern_database["A"][i].contexts[c].build_number = 3

(* ------------------------------------------------------------------ *)
(* A poll runs analyze_and_act iff it finds a new build                *)
(* ------------------------------------------------------------------ *)

\* C36: a poll of a monitor runs analyze_and_act iff the job reports a
\* latest build number that differs from the monitor's last_build: a step
\* in which a monitor advances last_build, appends to the ledger or leaves a
\* new observation starts from such a build and ends with last_build equal
\* to it, and a poll that reaches the 30 s sleep from such a build has
\* advanced last_build to it; so a build whose number stays the latest is
\* analyzed once, whatever polls follow
NewBuildAnalyzedOnce ==
    [][\A t \in 1..Len(tasks) :
          LET job == tasks[t].job_name
              found == latest[job] # NoBuild /\ latest[job] # tasks[t].last_build
              ran == \/ tasks'[t].last_build # tasks[t].last_build
                     \/ (action_history' # action_history /\ last'.job = job)
                     \/ (last' # last /\ last'.job = job)
              slept == tasks[t].pc # "sleep30" /\ tasks'[t].pc = "sleep30"
          IN  /\ ran => (found /\ tasks'[t].last_build = latest[job])
              /\ (slept /\ found) => (ran /\ last'.build = latest[job])]_vars

\* build 1 of job A has been analyzed and acted on, the job has not built
\* again, and the monitor is in its 30 s sleep with last_build 1
PolledAgainAfterAnalysis ==
    /\ Len(tasks) >= 1
    /\ latest["A"] = 1
    /\ tasks[1].last_build = 1
    /\ tasks[1].pc = "sleep30"
    /\ last.op = "analyzed"
    /\ last.build = 1
    /\ BuildKey("A", 1) \in DOMAIN action_history

(* ------------------------------------------------------------------ *)
(* handle_failure runs for the builds that are not SUCCESS             *)
(* ------------------------------------------------------------------ *)

\* C37: in an analyze_and_act run handle_failure runs (it reaches the
\* annotation or raises) iff the result of the analyzed build is not
\* SUCCESS; for a SUCCESS build the ledger is unchanged, no build is
\* triggered, no annotation is posted, and in the job's collection only
\* Success records are changed or added
HandledIffNotSuccess ==
    [][(\E inp \in JobInputs \cup {InSnapshot}, io \in IOs : MonitorJobAnalyze(1, inp, io)) =>
          LET an == analysis_cache'[CacheIndex(analysis_cache', BuildKey("A", latest["A"]))]
              before == DbGet(pattern_database, "A")
              after == DbGet(pattern_database', "A")
              handled == last'.posts >= 1 \/ last'.raised
          IN  /\ handled <=> an.result # "SUCCESS"
              /\ an.result = "SUCCESS" =>
                    /\ action_history' = action_history
                    /\ last'.appended = <<>>
                    /\ last'.triggers = <<>>
                    /\ last'.posts = 0
                    /\ Len(after) >= Len(before)
                    /\ \A i \in 1..Len(after) :
                          IF i <= Len(before)
                          THEN after[i] # before[i] =>
                                  (before[i].type = "success" /\ after[i].type = "success")
                          ELSE after[i].type = "success"
                    /\ \A j \in DOMAIN pattern_database \ {"A"} :
                          pattern_database'[j] = pattern_database[j]]_vars

\* a SUCCESS build has been analyzed after a failure of the job: the
\* collection holds the Failure record and Success records, and the ledger
\* holds only the records of the failed build
SuccessLearnedBesideFailure ==
    /\ last.op = "analyzed"
    /\ last.build = 2
    /\ last.posts = 0
    /\ last.learned
    /\ BuildKey("A", 2) \in CacheKeys(analysis_cache)
    /\ analysis_cache[CacheIndex(analysis_cache, BuildKey("A", 2))].result = "SUCCESS"
    /\ BuildKey("A", 1) \in DOMAIN action_history
    /\ BuildKey("A", 2) \notin DOMAIN action_history
    /\ \E i \in 1..Len(DbGet(pattern_database, "A")) : pattern_database["A"][i].type = "failure"
    /\ \E i \in 1..Len(DbGet(pattern_database, "A")) : pattern_database["A"][i].type = "success"

(* ------------------------------------------------------------------ *)
(* An analyze_and_act run stays within its job                         *)
(* ------------------------------------------------------------------ *)

\* what the builds of the two jobs may be
FrameInputs == {InFailure, InFailureIssues, InSuccess}

\* the monitors of both jobs, with builds that are learned from
NextFrame ==
    \/ \E job \in Jobs : NewBuild(job)
    \/ \E names \in DiscoveryResults : MonitorBuilds(names)
    \/ \E t \in 1..MaxTasks : MonitorJobIdle(t)
    \/ \E t \in 1..MaxTasks, inp \in FrameInputs : MonitorJobAnalyze(t, inp, AllOk)

SpecFrame == Init /\ [][NextFrame]_vars

\* C38: an analyze_and_act run for build n of job J leaves the collection
\* of every other job, every cache entry but J#n and every ledger list but
\* J#n as they were, and what match_known_patterns returns for the build are
\* records of J's collection
RunStaysWithinItsJob ==
    [][\A t \in 1..MaxTasks :
          (\E inp \in FrameInputs : MonitorJobAnalyze(t, inp, AllOk)) =>
             LET job == tasks[t].job_name
                 key == BuildKey(job, latest[job])
                 an == analysis_cache'[CacheIndex(analysis_cache', key)]
                 others(cache) ==
                    SeqFilter(cache, {a \in Range(cache) :
                        BuildKey(a.job_name, a.build_number) # key})
                 matches == match_known_patterns(pattern_database, an)
             IN  /\ DOMAIN pattern_database' \ {job} = DOMAIN pattern_database \ {job}
                 /\ \A j \in DOMAIN pattern_database \ {job} :
                       pattern_database'[j] = pattern_database[j]
                 /\ others(analysis_cache') = others(analysis_cache)
                 /\ DOMAIN action_history' \ {key} = DOMAIN action_history \ {key}
                 /\ \A k \in DOMAIN action_history \ {key} :
                       action_history'[k] = action_history[k]
                 /\ \A i \in 1..Len(matches) :
                       matches[i] \in Range(DbGet(pattern_database, job))]_vars

\* build 2 of job A has been analyzed and its failure matched a record of
\* A's collection, while job B has a collection, a cache entry and a ledger
\* list of its own
RunOfABesideB ==
    /\ last.op = "analyzed"
    /\ last.job = "A"
    /\ last.build = 2
    /\ \E i \in 1..Len(last.appended) : last.appended[i].type = "pattern_match"
    /\ "B" \in DOMAIN pattern_database
    /\ pattern_database["B"] # <<>>
    /\ pattern_database["B"] # pattern_database["A"]
    /\ BuildKey("B", 1) \in CacheKeys(analysis_cache)
    /\ BuildKey("B", 1) \in DOMAIN action_history

(* ------------------------------------------------------------------ *)
(* The duration range of a Success record                              *)
(* ------------------------------------------------------------------ *)

\* C39: after update_success_patterns has recorded a successful build, the
\* duration range of every Success record of an indicator of the build
\* covers the build's duration: min is at most and max is at least it
DurationRangeCoversObserved ==
    last.op = "observed" =>
       \A i \in 1..Len(pattern_database["A"]) :
          LET record == pattern_database["A"][i] IN
          (/\ record.type = "success"
           /\ \E k \in 1..Len(last.indicators) : last.indicators[k] = record.pattern)
          => (record.duration_min <= last.duration /\ last.duration <= record.duration_max)

====
